---- MODULE Spec2Model ----
(***************************************************************************)
(* A model of codecontext-cli: the init / refresh / context commands, the   *)
(* directory analyzer and project walker behind them, and the file system   *)
(* they read and write.                                                      *)
(*                                                                           *)
(* Representation.  A file or directory name is a sequence of one-character *)
(* strings (<<"a",".","t","s">> is a.ts), so that the substring tests of    *)
(* the code (includes, endsWith, startsWith, extname) are computed and not  *)
(* tabulated.  A path is a sequence of names below the file-system root.    *)
(* A text (description, purpose, ...) is a sequence of string pieces whose  *)
(* concatenation is the text: the code only concatenates texts and tests    *)
(* them for emptiness.                                                       *)
(***************************************************************************)
EXTENDS Naturals, Sequences, FiniteSets, TLC

VARIABLES
    children,   \* directory path -> its entries as created by the user, in readdir order
    docs,       \* directory path -> the persisted claude.md of the directory, or NoDoc
    config,     \* the content of <root>/.codecontext.json, or NoConfig
    hasGit,     \* whether <root>/.git exists
    hooked,     \* whether <root>/.git/hooks/post-commit was installed
    apiKey,     \* whether ANTHROPIC_API_KEY is set in the environment
    outFile,    \* the content of the file written by `context --output`, or NoFile
    history,    \* what `git log` reports, newest commit first
    pending,    \* the commit whose post-commit hook has not run yet, or NoHook
    last,       \* what the last command did (its calls and its result)
    steps       \* number of commands run so far

vars == <<children, docs, config, hasGit, hooked, apiKey, outFile, history, pending,
          last, steps>>

(***************************************************************************)
(* Strings                                                                   *)
(***************************************************************************)
\* A sequence written as a function [i \in 1..n |-> e], evaluated once and for all
Tuple(f) == f \o <<>>

\* `const x = v; Body`: the value v under the name Body gives it
With(v, Body(_)) == Body(v)

\* s.map(F) and s.some(P)
Map(s, F(_)) == Tuple([i \in 1..Len(s) |-> F(s[i])])
Some(s, P(_)) == \E i \in 1..Len(s) : P(s[i])

UpperChars == <<"A","B","C","D","E","F","G","H","I","J","K","L","M","N","O","P","Q","R","S","T","U","V","W","X","Y","Z">>
LowerChars == <<"a","b","c","d","e","f","g","h","i","j","k","l","m","n","o","p","q","r","s","t","u","v","w","x","y","z">>

\* the letters of from sent to the letters of to at the same place
CharMap(from, to) ==
    [c \in {from[i] : i \in 1..Len(from)} |-> to[CHOOSE i \in 1..Len(from) : from[i] = c]]
ToLower == CharMap(UpperChars, LowerChars)
ToUpper == CharMap(LowerChars, UpperChars)

Mapped(table, c) == IF c \in DOMAIN table THEN table[c] ELSE c

ToLowerCase(s) == Map(s, LAMBDA c : Mapped(ToLower, c))
ToUpperCase(s) == Map(s, LAMBDA c : Mapped(ToUpper, c))

\* whether p occurs in s at offset k
OccursAt(s, p, k) == \A j \in 1..Len(p) : s[k + j] = p[j]

StartsWith(s, p) == Len(p) <= Len(s) /\ OccursAt(s, p, 0)
EndsWith(s, p) == Len(p) <= Len(s) /\ OccursAt(s, p, Len(s) - Len(p))
Includes(s, p) == Len(p) <= Len(s) /\ \E k \in 0..(Len(s) - Len(p)) : OccursAt(s, p, k)

\* position of the last occurrence of character c in s, 0 when there is none
LastIndexOf(s, c) ==
    IF \E i \in 1..Len(s) : s[i] = c
    THEN CHOOSE i \in 1..Len(s) : s[i] = c /\ \A j \in (i + 1)..Len(s) : s[j] # c
    ELSE 0

RECURSIVE Join(_, _)
Join(texts, sep) ==
    IF texts = <<>> THEN <<>>
    ELSE IF Len(texts) = 1 THEN texts[1]
    ELSE texts[1] \o sep \o Join(Tail(texts), sep)

Slice(s, n) == SubSeq(s, 1, IF Len(s) < n THEN Len(s) ELSE n)

Digits == <<"0", "1", "2", "3", "4", "5", "6", "7", "8", "9">>

RECURSIVE NumText(_)
NumText(n) == IF n < 10 THEN <<Digits[n + 1]>> ELSE NumText(n \div 10) \o <<Digits[(n % 10) + 1]>>

(***************************************************************************)
(* Paths (node's path module)                                               *)
(***************************************************************************)
Dirname(p) == IF p = <<>> THEN <<>> ELSE SubSeq(p, 1, Len(p) - 1)
PathBasename(p) == IF p = <<>> THEN <<>> ELSE p[Len(p)]
PathJoin(p, name) == Append(p, name)
PathRelative(from, to) == SubSeq(to, Len(from) + 1, Len(to))

\* the path as the string the code sees: /a/b/c
RECURSIVE PathText(_)
PathText(p) == IF p = <<>> THEN <<>> ELSE PathText(Dirname(p)) \o <<"/">> \o p[Len(p)]

\* a relative path as the string the code sees: a/b/c
RelText(p) == Join(p, <<"/">>)

Extname(name) ==
    LET i == LastIndexOf(name, ".")
    IN  IF i <= 1 THEN <<>> ELSE SubSeq(name, i, Len(name))

\* path.basename(name, ext)
Basename(name, ext) ==
    IF ext # <<>> /\ ext # name /\ EndsWith(name, ext)
    THEN SubSeq(name, 1, Len(name) - Len(ext))
    ELSE name

(***************************************************************************)
(* utils/fileUtils.ts: the File Describer                                   *)
(***************************************************************************)
commonFiles == <<
    <<<<"p","a","c","k","a","g","e",".","j","s","o","n">>, "Node.js project manifest with dependencies and scripts">>,
    <<<<"t","s","c","o","n","f","i","g",".","j","s","o","n">>, "TypeScript compiler configuration">>,
    <<<<"w","e","b","p","a","c","k",".","c","o","n","f","i","g",".","j","s">>, "Webpack bundler configuration">>,
    <<<<"b","a","b","e","l",".","c","o","n","f","i","g",".","j","s">>, "Babel transpiler configuration">>,
    <<<<".","e","s","l","i","n","t","r","c",".","j","s","o","n">>, "ESLint linting rules">>,
    <<<<".","g","i","t","i","g","n","o","r","e">>, "Git ignore patterns">>,
    <<<<"R","E","A","D","M","E",".","m","d">>, "Project documentation and setup instructions">>,
    <<<<"D","o","c","k","e","r","f","i","l","e">>, "Docker container configuration">>,
    <<<<"d","o","c","k","e","r","-","c","o","m","p","o","s","e",".","y","m","l">>, "Docker Compose service definitions">>,
    <<<<".","e","n","v">>, "Environment variables (should be git-ignored)">>,
    <<<<"M","a","k","e","f","i","l","e">>, "Build automation commands">>,
    <<<<"r","e","q","u","i","r","e","m","e","n","t","s",".","t","x","t">>, "Python project dependencies">>,
    <<<<"g","o",".","m","o","d">>, "Go module definition">>,
    <<<<"C","a","r","g","o",".","t","o","m","l">>, "Rust project manifest">>,
    <<<<"p","o","m",".","x","m","l">>, "Maven project configuration">>,
    <<<<"b","u","i","l","d",".","g","r","a","d","l","e">>, "Gradle build configuration">> >>

extensions == <<
    <<<<".","t","s">>, "TypeScript source file">>,
    <<<<".","t","s","x">>, "TypeScript React component">>,
    <<<<".","j","s">>, "JavaScript source file">>,
    <<<<".","j","s","x">>, "JavaScript React component">>,
    <<<<".","p","y">>, "Python source file">>,
    <<<<".","g","o">>, "Go source file">>,
    <<<<".","j","a","v","a">>, "Java source file">>,
    <<<<".","c","p","p">>, "C++ source file">>,
    <<<<".","c">>, "C source file">>,
    <<<<".","r","s">>, "Rust source file">>,
    <<<<".","v","u","e">>, "Vue.js component">>,
    <<<<".","s","v","e","l","t","e">>, "Svelte component">>,
    <<<<".","c","s","s">>, "Stylesheet">>,
    <<<<".","s","c","s","s">>, "SASS stylesheet">>,
    <<<<".","h","t","m","l">>, "HTML template">>,
    <<<<".","j","s","o","n">>, "JSON data file">>,
    <<<<".","y","m","l">>, "YAML configuration file">>,
    <<<<".","y","a","m","l">>, "YAML configuration file">>,
    <<<<".","x","m","l">>, "XML data file">>,
    <<<<".","s","q","l">>, "SQL database script">>,
    <<<<".","s","h">>, "Shell script">>,
    <<<<".","m","d">>, "Markdown documentation">>,
    <<<<".","t","e","s","t",".","t","s">>, "TypeScript test file">>,
    <<<<".","t","e","s","t",".","j","s">>, "JavaScript test file">>,
    <<<<".","s","p","e","c",".","t","s">>, "TypeScript test specification">>,
    <<<<".","s","p","e","c",".","j","s">>, "JavaScript test specification">> >>

\* the value of the first pair of an ordered table whose key satisfies Hit, as a
\* one-element sequence; <<>> when no key does
FirstHit(table, Hit(_)) ==
    IF \E i \in 1..Len(table) : Hit(table[i][1])
    THEN << table[CHOOSE i \in 1..Len(table) :
                    Hit(table[i][1]) /\ \A j \in 1..(i - 1) : ~Hit(table[j][1])][2] >>
    ELSE <<>>

getFileDescription(fileName, ext) ==
    With(FirstHit(commonFiles, LAMBDA k : k = fileName), LAMBDA c :
    With(FirstHit(extensions, LAMBDA k : EndsWith(fileName, k)), LAMBDA e :
        IF c # <<>> THEN c
        ELSE IF e # <<>> THEN e
        ELSE ToUpperCase(SubSeq(ext, 2, Len(ext))) \o <<" file">>))

importantFiles == <<
    <<"i","n","d","e","x">>, <<"m","a","i","n">>, <<"a","p","p">>, <<"s","e","r","v","e","r">>, <<"c","l","i","e","n","t">>,
    <<"p","a","c","k","a","g","e",".","j","s","o","n">>, <<"t","s","c","o","n","f","i","g",".","j","s","o","n">>, <<"w","e","b","p","a","c","k",".","c","o","n","f","i","g">>,
    <<"D","o","c","k","e","r","f","i","l","e">>, <<"d","o","c","k","e","r","-","c","o","m","p","o","s","e">>, <<".","e","n","v">>,
    <<"R","E","A","D","M","E">>, <<"c","o","n","f","i","g">>, <<"s","e","t","u","p">>, <<"i","n","s","t","a","l","l">> >>

ImportanceHigh == 10
ImportanceTest == 3
ImportanceSource == 7
ImportanceDefault == 5

\* fileName.includes('.test.') || fileName.includes('.spec.')
IsTestName(fileName) == Includes(fileName, <<".","t","e","s","t",".">>) \/ Includes(fileName, <<".","s","p","e","c",".">>)

calculateImportance(fileName, ext) ==
    IF With(ToLowerCase(fileName), LAMBDA lower :
            Some(importantFiles, LAMBDA k : Includes(lower, k)))
    THEN ImportanceHigh
    ELSE IF IsTestName(fileName)
        THEN ImportanceTest
        ELSE IF ext \in {<<".","t","s">>, <<".","t","s","x">>, <<".","j","s">>, <<".","j","s","x">>}
        THEN ImportanceSource
        ELSE ImportanceDefault

functionMap == <<
    <<<<"i","n","d","e","x">>, <<"Entry point", "Module exports">> >>,
    <<<<"a","p","p">>, <<"Application initialization", "Main app component">> >>,
    <<<<"s","e","r","v","e","r">>, <<"Server setup", "API endpoints">> >>,
    <<<<"c","l","i","e","n","t">>, <<"Client-side entry", "Browser initialization">> >>,
    <<<<"c","o","n","f","i","g">>, <<"Configuration management", "Environment setup">> >>,
    <<<<"r","o","u","t","e","r">>, <<"Route definitions", "Navigation setup">> >>,
    <<<<"m","i","d","d","l","e","w","a","r","e">>, <<"Request processing", "Authentication/Authorization">> >>,
    <<<<"c","o","n","t","r","o","l","l","e","r">>, <<"Request handling", "Business logic coordination">> >>,
    <<<<"s","e","r","v","i","c","e">>, <<"Business logic", "External integrations">> >>,
    <<<<"m","o","d","e","l">>, <<"Data structure", "Database schema">> >>,
    <<<<"u","t","i","l","s">>, <<"Helper functions", "Common utilities">> >>,
    <<<<"c","o","n","s","t","a","n","t","s">>, <<"Shared constants", "Configuration values">> >>,
    <<<<"t","y","p","e","s">>, <<"Type definitions", "Interfaces">> >>,
    <<<<"h","o","o","k","s">>, <<"Custom React hooks", "State management">> >>,
    <<<<"s","t","o","r","e">>, <<"State management", "Data persistence">> >>,
    <<<<"a","p","i">>, <<"API client", "HTTP requests">> >>,
    <<<<"a","u","t","h">>, <<"Authentication", "User management">> >>,
    <<<<"d","a","t","a","b","a","s","e">>, <<"Database connection", "Query execution">> >>,
    <<<<"l","o","g","g","e","r">>, <<"Logging functionality", "Error tracking">> >>,
    <<<<"v","a","l","i","d","a","t","o","r">>, <<"Input validation", "Data sanitization">> >>,
    <<<<"p","a","r","s","e","r">>, <<"Data parsing", "Format conversion">> >>,
    <<<<"f","o","r","m","a","t","t","e","r">>, <<"Data formatting", "Output preparation">> >> >>

\* each primary function is a text; the guesses are one-piece texts
getPrimaryFunctions(fileName, ext) ==
    With(ToLowerCase(Basename(fileName, ext)), LAMBDA baseName :
    With(FirstHit(functionMap, LAMBDA k : Includes(baseName, k)), LAMBDA h :
        IF h # <<>> THEN Map(h[1], LAMBDA t : <<t>>)
        ELSE IF IsTestName(fileName)
        THEN << <<"Unit tests">>, <<"Test cases">> >>
        ELSE << <<"General functionality">> >>))

\* lastModified (the file's mtime) is left out: no part of the model reads it
getFileInfo(filePath) ==
    With(PathBasename(filePath), LAMBDA fileName :
    With(Extname(fileName), LAMBDA ext :
        [ path |-> filePath,
          description |-> getFileDescription(fileName, ext),
          importance |-> calculateImportance(fileName, ext),
          primaryFunctions |-> getPrimaryFunctions(fileName, ext) ]))

purposes == <<
    <<<<"s","r","c">>, "Source code directory containing the main application logic">>,
    <<<<"c","o","m","p","o","n","e","n","t","s">>, "React/Vue/Angular components for the user interface">>,
    <<<<"u","t","i","l","s">>, "Utility functions and helper modules">>,
    <<<<"s","e","r","v","i","c","e","s">>, "Service layer for business logic and external integrations">>,
    <<<<"m","o","d","e","l","s">>, "Data models and database schemas">>,
    <<<<"c","o","n","t","r","o","l","l","e","r","s">>, "Request handlers and route controllers">>,
    <<<<"v","i","e","w","s">>, "View templates and UI layouts">>,
    <<<<"t","e","s","t","s">>, "Test files and test utilities">>,
    <<<<"c","o","n","f","i","g">>, "Configuration files and environment settings">>,
    <<<<"s","c","r","i","p","t","s">>, "Build scripts and automation tools">>,
    <<<<"d","o","c","s">>, "Documentation files and guides">>,
    <<<<"p","u","b","l","i","c">>, "Static assets served directly to users">>,
    <<<<"a","s","s","e","t","s">>, "Images, fonts, and other media files">>,
    <<<<"s","t","y","l","e","s">>, "CSS, SCSS, or other styling files">>,
    <<<<"a","p","i">>, "API endpoints and route definitions">>,
    <<<<"l","i","b">>, "Third-party libraries or custom library code">>,
    <<<<"t","y","p","e","s">>, "TypeScript type definitions">>,
    <<<<"i","n","t","e","r","f","a","c","e","s">>, "Interface definitions">>,
    <<<<"c","o","n","s","t","a","n","t","s">>, "Application constants and configuration values">>,
    <<<<"m","i","d","d","l","e","w","a","r","e">>, "Express/Koa middleware functions">>,
    <<<<"h","o","o","k","s">>, "React hooks or other framework hooks">>,
    <<<<"s","t","o","r","e">>, "State management (Redux, Vuex, etc.)">>,
    <<<<"a","c","t","i","o","n","s">>, "Redux/Flux actions">>,
    <<<<"r","e","d","u","c","e","r","s">>, "Redux reducers">>,
    <<<<"m","u","t","a","t","i","o","n","s">>, "Vuex mutations">>,
    <<<<"q","u","e","r","i","e","s">>, "Database queries or GraphQL queries">>,
    <<<<"m","i","g","r","a","t","i","o","n","s">>, "Database migration files">>,
    <<<<"s","e","e","d","s">>, "Database seed files">> >>

getDirectoryPurposeTypesFirst(dirPath, files) ==
    With(PathBasename(dirPath), LAMBDA dirName :
    With(FirstHit(purposes, LAMBDA k : k = dirName), LAMBDA p :
    With({Extname(files[i]) : i \in 1..Len(files)} \ {<<>>}, LAMBDA uniqueTypes :
        IF <<".","p","y">> \in uniqueTypes THEN <<"Python modules and scripts">>
        ELSE IF p # <<>> THEN p
        ELSE <<"Contains ">> \o NumText(Len(files)) \o <<" files related to ">> \o dirName)))

\* files: the names fs.readdir(dirPath) returns (every entry, dotfiles included)
getDirectoryPurpose(dirPath, files) ==
    With(PathBasename(dirPath), LAMBDA dirName :
    With(FirstHit(purposes, LAMBDA k : k = dirName), LAMBDA p :
    With({Extname(files[i]) : i \in 1..Len(files)} \ {<<>>}, LAMBDA uniqueTypes :
        IF p # <<>> THEN p
        ELSE IF <<".","t","s","x">> \in uniqueTypes \/ <<".","j","s","x">> \in uniqueTypes
        THEN <<"Contains React components and UI elements">>
        ELSE IF <<".","v","u","e">> \in uniqueTypes THEN <<"Contains Vue.js components">>
        ELSE IF <<".","p","y">> \in uniqueTypes THEN <<"Python modules and scripts">>
        ELSE IF <<".","g","o">> \in uniqueTypes THEN <<"Go language source files">>
        ELSE <<"Contains ">> \o NumText(Len(files)) \o <<" files related to ">> \o dirName)))

(***************************************************************************)
(* The Ignore Filter: the `ignore` package (gitignore rules) on the pattern *)
(* shapes the configuration holds.  A pattern is one of                      *)
(*   [kind |-> "under", dir |-> d]               d/**                       *)
(*   [kind |-> "named", suffix |-> s]            *s      (no slash)         *)
(*   [kind |-> "in", dir |-> d, suffix |-> s]    d/*s                       *)
(* and a path is a non-empty sequence of names relative to the rule root.   *)
(***************************************************************************)
Under(d) == [kind |-> "under", dir |-> d, suffix |-> <<>>]
Named(s) == [kind |-> "named", dir |-> <<>>, suffix |-> s]
InDir(d, s) == [kind |-> "in", dir |-> d, suffix |-> s]

\* one rule against one path (the rule's regular expression)
MatchRule(rule, p) ==
    CASE rule.kind = "under" -> Len(p) >= 2 /\ p[1] = rule.dir
      [] rule.kind = "named" -> EndsWith(p[Len(p)], rule.suffix)
      [] rule.kind = "in" -> Len(p) = 2 /\ p[1] = rule.dir /\ EndsWith(p[2], rule.suffix)

\* ig.ignores(p): p or one of its parent directories matches a rule
Ignores(patterns, p) ==
    \E n \in 1..Len(p) : \E i \in 1..Len(patterns) : MatchRule(patterns[i], SubSeq(p, 1, n))

(***************************************************************************)
(* services/codeParser.ts: the Structural Source Analyzer.                  *)
(* The text of a source file is held as the declarations the regular        *)
(* expressions of parseImports, parseExports, parseFunctions, parseClasses  *)
(* and parseInterfaces find in it: a record with the five sequences.        *)
(***************************************************************************)
SourceExts == {<<".","t","s">>, <<".","t","s","x">>, <<".","j","s">>, <<".","j","s","x">>}

IsExported(f) == f.isExported

determinePurposeClassFirst(parsed, fileName) ==
    With(ToLowerCase(Basename(fileName, Extname(fileName))), LAMBDA baseName :
        IF Len(parsed.classes) > 0
        THEN <<"Defines ">> \o parsed.classes[1].name \o <<" class with ">>
                 \o NumText(Len(parsed.classes[1].methods)) \o <<" methods">>
        ELSE IF Includes(baseName, <<"t","e","s","t">>) \/ Includes(baseName, <<"s","p","e","c">>)
        THEN <<"Test suite for unit testing">>
        ELSE IF baseName = <<"i","n","d","e","x">>
        THEN <<"Module entry point that exports public API">>
        ELSE <<"Module implementation">>)

determinePurpose(parsed, fileName) ==
    With(ToLowerCase(Basename(fileName, Extname(fileName))), LAMBDA baseName :
    With(SelectSeq(parsed.functions, IsExported), LAMBDA exportedFuncs :
        IF Includes(baseName, <<"t","e","s","t">>) \/ Includes(baseName, <<"s","p","e","c">>)
        THEN <<"Test suite for unit testing">>
        ELSE IF baseName = <<"i","n","d","e","x">>
        THEN <<"Module entry point that exports public API">>
        ELSE IF Len(parsed.classes) > 0
        THEN <<"Defines ">> \o parsed.classes[1].name \o <<" class with ">>
                 \o NumText(Len(parsed.classes[1].methods)) \o <<" methods">>
        ELSE IF Len(parsed.interfaces) > 0
        THEN <<"Type definitions including ">>
                 \o Join(Map(parsed.interfaces, LAMBDA i : i.name), <<", ">>)
        ELSE IF Len(parsed.functions) > 0 /\ Len(exportedFuncs) > 0
        THEN <<"Provides ">>
                 \o Join(Map(exportedFuncs, LAMBDA f : f.name), <<", ">>)
                 \o <<" functionality">>
        ELSE IF Some(parsed.imports, LAMBDA i : Includes(i.source, <<"r","e","a","c","t">>))
        THEN <<"React component">>
        ELSE IF Some(parsed.imports, LAMBDA i : Includes(i.source, <<"e","x","p","r","e","s","s">>))
        THEN <<"Express server/middleware">>
        ELSE <<"Module implementation">>))

NoParse == [none |-> TRUE]

\* entry: the directory entry of the file (its name, whether it can be read, its text)
parseSourceFile(filePath, entry) ==
    IF Extname(PathBasename(filePath)) \notin SourceExts THEN NoParse
    ELSE IF ~entry.readable THEN NoParse
    ELSE [ imports |-> entry.text.imports,
           exports |-> entry.text.exports,
           functions |-> entry.text.functions,
           classes |-> entry.text.classes,
           interfaces |-> entry.text.interfaces,
           mainPurpose |-> determinePurpose(entry.text, PathBasename(filePath)) ]

(***************************************************************************)
(* services/analyzer.ts: the heuristics of the Directory Analyzer           *)
(***************************************************************************)
\* the distinct elements of a sequence, each at its first place
RECURSIVE Distinct(_)
Distinct(s) ==
    IF s = <<>> THEN <<>>
    ELSE LET rest == Distinct(SubSeq(s, 1, Len(s) - 1))
             x == s[Len(s)]
         IN  IF \E i \in 1..Len(rest) : rest[i] = x THEN rest ELSE Append(rest, x)

Count(s, x) == Cardinality({i \in 1..Len(s) : s[i] = x})

\* f.path.includes('.test.') || f.path.includes('.spec.')
IsTestPath(f) == IsTestName(PathText(f.path))

\* the first of types, in order of first appearance, with the highest count in exts
MostFrequent(exts, types) ==
    types[CHOOSE i \in 1..Len(types) :
            /\ \A j \in 1..Len(types) : Count(exts, types[j]) <= Count(exts, types[i])
            /\ \A j \in 1..(i - 1) : Count(exts, types[j]) < Count(exts, types[i])]

IsExternal(d) == d.type = "import" /\ ~StartsWith(d.from, <<".">>)

\* lines 166-171: the statement on the dominant file type
fileTypeInsight(files) ==
    IF Len(files) = 0 THEN <<>>
    ELSE With(Map(files, LAMBDA f : Extname(PathBasename(f.path))), LAMBDA exts :
         With(MostFrequent(exts, Distinct(exts)), LAMBDA mainType :
            << <<"Primarily ">> \o mainType \o <<" files (">>
                   \o NumText(Count(exts, mainType)) \o <<" files)">> >>))

\* lines 173-181: the statement on the external dependencies
externalInsight(dependencies) ==
    With(Distinct(Map(SelectSeq(dependencies, IsExternal), LAMBDA d : d.from)),
         LAMBDA externalDeps :
            IF Len(externalDeps) = 0 THEN <<>>
            ELSE << <<"Uses ">> \o Join(Slice(externalDeps, 3), <<", ">>)
                       \o (IF Len(externalDeps) > 3 THEN <<" and others">> ELSE <<>>) >>)

generateArchitectureInsights(files, dependencies) ==
    With(fileTypeInsight(files)
         \o externalInsight(dependencies)
         \o (IF Some(files, IsTestPath) THEN << <<"Includes test files">> >> ELSE <<>>)
         \o (IF Some(files, LAMBDA f : \/ Includes(PathText(f.path), <<".","d",".","t","s">>)
                                       \/ Includes(PathBasename(f.path), <<"t","y","p","e","s">>))
             THEN << <<"Has TypeScript type definitions">> >> ELSE <<>>),
         LAMBDA insights :
            With(Join(insights, <<". ">>), LAMBDA text :
                IF text # <<>> THEN text ELSE <<"Standard module structure">>))

ReadmeThreshold == 5

generateImprovements(files, dependencies) ==
    LET ExtOf(f) == Extname(PathBasename(f.path))
        hasTests == Some(files, IsTestPath)
        hasCode == Some(files, LAMBDA f : ExtOf(f) \in SourceExts)
        hasReadme == Some(files, LAMBDA f : ToLowerCase(PathBasename(f.path)) = <<"r","e","a","d","m","e",".","m","d">>)
        hasJS == Some(files, LAMBDA f : ExtOf(f) \in {<<".","j","s">>, <<".","j","s","x">>})
        hasTypes == Some(files, LAMBDA f : Includes(PathText(f.path), <<".","d",".","t","s">>))
    IN  (IF hasCode /\ ~hasTests THEN << <<"Consider adding unit tests">> >> ELSE <<>>)
        \o (IF ~hasReadme /\ Len(files) > ReadmeThreshold
            THEN << <<"Add README.md for better documentation">> >> ELSE <<>>)
        \o (IF hasJS /\ ~hasTypes
            THEN << <<"Consider adding TypeScript or type definitions">> >> ELSE <<>>)

(***************************************************************************)
(* The file system                                                           *)
(***************************************************************************)
ProjectRoot == <<<<"p","r","o","j">>>>      \* process.cwd() of every command

NoDoc == <<>>          \* a rendered document is never empty
NoConfig == [none |-> TRUE]
NoFile == <<>>
NoText == [imports |-> <<>>, exports |-> <<>>, functions |-> <<>>,
           classes |-> <<>>, interfaces |-> <<>>]

File(name, text) == [name |-> name, kind |-> "file", readable |-> TRUE, text |-> text]
Dir(name) == [name |-> name, kind |-> "dir", readable |-> TRUE, text |-> NoText]
\* an entry fs.stat fails on: a symbolic link whose target is gone
Dangling(name) == [name |-> name, kind |-> "dangling", readable |-> FALSE, text |-> NoText]

ConfigName == <<".","c","o","d","e","c","o","n","t","e","x","t",".","j","s","o","n">>
GitName == <<".","g","i","t">>
DocName == <<"c","l","a","u","d","e",".","m","d">>
OutName == <<"c","o","n","t","e","x","t",".","m","d">>      \* the file named by `context --output context.md`

IsDirectory(tree, p) == p \in DOMAIN tree

\* whether fs.readdir(p) succeeds
CanList(tree, p) ==
    /\ IsDirectory(tree, p)
    /\ \/ Len(p) <= Len(ProjectRoot)
       \/ \E i \in 1..Len(tree[Dirname(p)]) :
              tree[Dirname(p)][i].name = PathBasename(p) /\ tree[Dirname(p)][i].readable

\* fs.readdir(p): the user's entries and the files the commands themselves created.
\* fsv holds the part of the state the listing depends on.
Readdir(fsv, p) ==
    (IF p = ProjectRoot /\ fsv.hasConfig THEN <<File(ConfigName, NoText)>> ELSE <<>>)
    \o (IF p = ProjectRoot /\ fsv.hasGit THEN <<Dir(GitName)>> ELSE <<>>)
    \o fsv.tree[p]
    \o (IF fsv.docs[p] # NoDoc THEN <<File(DocName, NoText)>> ELSE <<>>)
    \o (IF p = ProjectRoot /\ fsv.hasOut THEN <<File(OutName, NoText)>> ELSE <<>>)

FsView(tree, d, cfgPresent, git, log, out) ==
    [tree |-> tree, docs |-> d, hasConfig |-> cfgPresent, hasGit |-> git, log |-> log,
     hasOut |-> out]

(***************************************************************************)
(* services/git.ts and services/aiAnalyzer.ts: the collaborators            *)
(***************************************************************************)
\* the history `git log` reports when the model starts, newest first
GitLog == <<
    [hash |-> <<"9","f","c","e","b","0","2","d","0">>, date |-> <<"2024-01-02">>, message |-> <<"Add helper">>],
    [hash |-> <<"1","a","4","1","0","e","f","b","d">>, date |-> <<"2024-01-01">>, message |-> <<"Initial commit">>] >>

RecentLimit == 5

\* log: the history of the repository; [] when git log fails (no repository)
getRecentCommits(git, log, limit) == IF git THEN Slice(log, limit) ELSE <<>>

\* getChangedFiles: modified, created and renamed-to files; [] when git status fails
getChangedFiles(git, status) ==
    IF git THEN status.modified \o status.created \o status.renamedTo ELSE <<>>

\* What the AI service does in one command: file is its answer to the per-file
\* request, dir its answer to the directory request.
\*   "ok"/"json": a well-formed answer;  "text": an answer that is not JSON;
\*   "fail": the request throws (network error)
AiOutcomes == { [file |-> "ok", dir |-> "json"],
                [file |-> "ok", dir |-> "text"],
                [file |-> "fail", dir |-> "fail"] }
NoAi == [file |-> "none", dir |-> "none"]

AiFileText == <<"(AI) one-sentence description">>
AiPurpose == <<"(AI) purpose">>
AiArchitecture == <<"(AI) architecture">>
AiImprovements == << <<"(AI) improvement">> >>
AiReplyText == <<"(AI) reply that is not JSON">>

isAvailable(key) == key

\* AIAnalyzer.analyzeDirectory: never throws when the client exists
aiAnalyzeDirectory(ai) ==
    CASE ai.dir = "json" ->
            [purpose |-> AiPurpose, architecture |-> AiArchitecture,
             improvements |-> AiImprovements]
      [] ai.dir = "text" ->
            [purpose |-> <<"AI-powered analysis available with proper API key">>,
             architecture |-> AiReplyText, improvements |-> <<>>]
      [] OTHER ->
            [purpose |-> <<"AI-powered analysis available with proper API key">>,
             architecture |-> <<"Standard module structure">>, improvements |-> <<>>]

\* AIAnalyzer.analyzeCodeQuality
analyzeCodeQuality(ai, parsed) ==
    IF ai.file = "ok" THEN AiFileText ELSE parsed.mainPurpose

(***************************************************************************)
(* services/analyzer.ts: analyzeDirectory                                   *)
(***************************************************************************)
KeyFilesLimit == 10
PrimaryLimit == 3

\* stable sort by importance, descending (Array.prototype.sort is stable)
RECURSIVE SortByImportance(_)
SortByImportance(s) ==
    IF s = <<>> THEN <<>>
    ELSE LET rest == SortByImportance(SubSeq(s, 1, Len(s) - 1))
             x == s[Len(s)]
             \* x goes after every element that is at least as important
             k == Cardinality({i \in 1..Len(rest) : rest[i].importance >= x.importance})
         IN  SubSeq(rest, 1, k) \o <<x>> \o SubSeq(rest, k + 1, Len(rest))

\* a ranking by a sort that is not stable: of two files of equal importance the one
\* listed later comes first
keyFilesTiesReversed(fileAnalyses) ==
    Slice(SortByImportance(Tuple([i \in 1..Len(fileAnalyses) |->
                                     fileAnalyses[Len(fileAnalyses) + 1 - i]])),
          KeyFilesLimit)

keyFilesOf(fileAnalyses) == Slice(SortByImportance(fileAnalyses), KeyFilesLimit)

\* an analyzer that asks the AI service in every mode
UseAiAnyMode(mode, key) == isAvailable(key)

\* lines 33, 49 and 124: aiAnalyzer && aiAnalyzer.isAvailable() && config.mode !== 'quick'
UseAi(mode, key) == mode # "quick" /\ isAvailable(key)

\* lines 24-26: the children that pass the ignore filter (by bare name) and are not dotfiles
filteredFiles(files, patterns) ==
    LET Kept(e) == ~Ignores(patterns, <<e.name>>) /\ ~StartsWith(e.name, <<".">>)
    IN  SelectSeq(files, Kept)

\* f.name(p1, p2): the signature pushed for an exported function
SignatureNameOnly(f) == f.name
Signature(f) == f.name \o <<"(">> \o Join(f.params, <<", ">>) \o <<")">>

\* lines 41-65 and 87: the File Analysis of one regular file
analyzeFile(filePath, entry, mode, key, ai) ==
    With(getFileInfo(filePath), LAMBDA fileInfo :
    With(parseSourceFile(filePath, entry), LAMBDA parsed :
        IF parsed = NoParse THEN fileInfo
        ELSE [ fileInfo EXCEPT
                 !.description =
                     IF UseAi(mode, key)
                     THEN analyzeCodeQuality(ai, parsed)
                     ELSE IF parsed.mainPurpose # <<>> THEN parsed.mainPurpose
                     ELSE fileInfo.description,
                 !.primaryFunctions =
                     IF Len(parsed.functions) > 0
                     THEN Slice(Map(SelectSeq(parsed.functions, IsExported), Signature),
                                PrimaryLimit)
                     ELSE fileInfo.primaryFunctions ]))

\* lines 67-84: the dependency edges of one regular file
dependenciesOf(filePath, entry) ==
    LET ImportEdge(imp) ==
            [ name |-> With(Join(imp.specifiers, <<", ">>), LAMBDA names :
                            IF names # <<>> THEN names ELSE imp.source),
              type |-> "import", from |-> imp.source, to |-> PathText(filePath) ]
        ExportEdge(exp) ==
            [ name |-> exp.name, type |-> "export",
              from |-> PathText(filePath), to |-> <<"e","x","t","e","r","n","a","l">> ]
    IN  With(parseSourceFile(filePath, entry), LAMBDA parsed :
            IF parsed = NoParse THEN <<>>
            ELSE Map(parsed.imports, ImportEdge) \o Map(parsed.exports, ExportEdge))

RECURSIVE Flatten(_)
Flatten(ss) == IF ss = <<>> THEN <<>> ELSE ss[1] \o Flatten(Tail(ss))

\* lines 91-117: the nearest ancestor holding .git, and its last commits
RECURSIVE findGitRoot(_, _)
findGitRoot(git, p) ==
    IF p = Dirname(p) THEN p
    ELSE IF git /\ p = ProjectRoot THEN p
    ELSE findGitRoot(git, Dirname(p))

\* a search that takes the directory it ended at for a repository without looking
gitRootAssumed(git, dirPath) == TRUE

\* line 103: whether the directory the search ended at holds .git
hasGitRoot(git, dirPath) == git /\ findGitRoot(git, dirPath) = ProjectRoot

recentChangesOf(git, log, dirPath) ==
    IF hasGitRoot(git, dirPath)
    THEN Map(getRecentCommits(git, log, RecentLimit), LAMBDA c :
             [ commit |-> Slice(c.hash, 7), date |-> c.date,
               description |-> c.message, impact |-> <<"Code changes">>,
               files |-> <<>> ])
    ELSE <<>>

NoAnalysis == [none |-> TRUE]

\* what analyzeDirectory leaves when an exception escapes it
NoCalls == [file |-> 0, dir |-> FALSE, log |-> FALSE]

Raised == [raised |-> TRUE, analysis |-> NoAnalysis, fileAnalyses |-> <<>>,
           heuristic |-> NoAnalysis, calls |-> NoCalls, document |-> NoDoc]

IsFile(e) == e.kind = "file"

\* the rendering of a record (documentationGenerator.ts): the document as its lines
generateDocumentation(analysis) ==
    LET KeyLine(f) ==
            <<"- ">> \o PathText(f.path) \o <<" (importance ">> \o NumText(f.importance)
                \o <<"): ">> \o f.description \o <<" [">>
                \o Join(f.primaryFunctions, <<"; ">>) \o <<"]">>
        ChangeLine(c) ==
            <<"- ">> \o c.commit \o <<" ">> \o c.date \o <<" ">> \o c.description
                \o <<" (">> \o c.impact \o <<")">>
        DepLine(d) ==
            <<"- ">> \o d.name \o <<" (", d.type, "): ">> \o d.from \o <<" -> ">> \o d.to
    IN  << <<"## Purpose">>, analysis.purpose,
           <<"## Architecture">>, analysis.architecture,
           <<"## Key Files">> >>
        \o Map(analysis.keyFiles, KeyLine)
        \o << <<"## Recent Changes">> >>
        \o Map(analysis.recentChanges, ChangeLine)
        \o << <<"## Improvement Suggestions">> >>
        \o Map(analysis.improvements, LAMBDA t : <<"- ">> \o t)
        \o << <<"## Dependencies">> >>
        \o Map(analysis.dependencies, DepLine)

\* analyzeDirectory(dirPath, config) on the file system fsv, with the AI service
\* behaving as ai.  raised: an exception escapes; otherwise analysis is the record
\* returned, fileAnalyses the list of line 28 as the loop over the children filled it,
\* heuristic the values of lines 119-121 (purpose, architecture and improvements
\* before the AI answer is looked at), calls the requests made to the collaborators
\* (file: per-file AI requests, dir: the directory AI request, log: git log) and document the text written to
\* dirPath/claude.md.
analyzeDirectory(fsv, dirPath, cfg, key, ai) ==
    IF ~CanList(fsv.tree, dirPath) THEN Raised
    ELSE
    With(Readdir(fsv, dirPath), LAMBDA files :
    With(filteredFiles(files, cfg.ignorePatterns), LAMBDA kept :
        \* line 38: fs.stat of a kept entry, outside any try
        IF Some(kept, LAMBDA e : e.kind = "dangling") THEN Raised
        ELSE
        With(SelectSeq(kept, IsFile), LAMBDA regular :
        With(Map(regular, LAMBDA e :
                 analyzeFile(PathJoin(dirPath, e.name), e, cfg.mode, key, ai)),
             LAMBDA fileAnalyses :
        With(Flatten(Map(regular, LAMBDA e : dependenciesOf(PathJoin(dirPath, e.name), e))),
             LAMBDA allDependencies :
        With([ purpose |-> getDirectoryPurpose(dirPath, Map(files, LAMBDA e : e.name)),
               architecture |-> generateArchitectureInsights(fileAnalyses, allDependencies),
               improvements |-> generateImprovements(fileAnalyses, allDependencies) ],
             LAMBDA heuristic :
        With(UseAi(cfg.mode, key), LAMBDA useAi :
        With(aiAnalyzeDirectory(ai), LAMBDA aiInsights :
        With([ path |-> dirPath,
               purpose |->
                   IF useAi /\ aiInsights.purpose # <<>> THEN aiInsights.purpose
                   ELSE heuristic.purpose,
               architecture |->
                   IF useAi /\ aiInsights.architecture # <<>> THEN aiInsights.architecture
                   ELSE heuristic.architecture,
               keyFiles |-> keyFilesOf(fileAnalyses),
               recentChanges |-> recentChangesOf(fsv.hasGit, fsv.log, dirPath),
               improvements |->
                   IF useAi /\ Len(aiInsights.improvements) > 0 THEN aiInsights.improvements
                   ELSE heuristic.improvements,
               dependencies |-> allDependencies ],
             LAMBDA analysis :
                [ raised |-> FALSE, analysis |-> analysis,
                  fileAnalyses |-> fileAnalyses, heuristic |-> heuristic,
                  calls |-> [ file |-> IF useAi
                                       THEN Len(SelectSeq(regular, LAMBDA e :
                                                parseSourceFile(PathJoin(dirPath, e.name), e)
                                                    # NoParse))
                                       ELSE 0,
                              dir |-> useAi,
                              log |-> hasGitRoot(fsv.hasGit, dirPath) ],
                  document |-> generateDocumentation(analysis) ] ))))))) ))

(***************************************************************************)
(* services/analyzer.ts: the Project Walker and analyzeProject              *)
(***************************************************************************)
RECURSIVE traverse(_, _, _, _)
RECURSIVE traverseItems(_, _, _, _, _)

\* the directories added to the set by traverse(dir, rootPath), in insertion order
traverse(fsv, patterns, dir, rootPath) ==
    <<dir>> \o (IF CanList(fsv.tree, dir)
                THEN traverseItems(fsv, patterns, dir, rootPath, Readdir(fsv, dir))
                ELSE <<>>)

\* the loop over the items of dir; a failing fs.stat ends it (the catch is outside the loop)
traverseItems(fsv, patterns, dir, rootPath, items) ==
    IF items = <<>> THEN <<>>
    ELSE LET item == items[1]
             fullPath == PathJoin(dir, item.name)
             rest == traverseItems(fsv, patterns, dir, rootPath, Tail(items))
         IN  IF StartsWith(item.name, <<".">>) THEN rest
             ELSE IF Ignores(patterns, PathRelative(rootPath, fullPath)) THEN rest
             ELSE IF item.kind = "dangling" THEN <<>>
             ELSE IF item.kind = "dir" THEN traverse(fsv, patterns, fullPath, rootPath) \o rest
             ELSE rest

getDirectories(fsv, projectPath, patterns) == traverse(fsv, patterns, projectPath, projectPath)

\* for (const dir of directories) await analyzeDirectory(dir, config): the loop stops
\* at the first directory whose analysis raises.  Each directory occurs once in dirs.
\* the place of the first run that raised, Len(runs) + 1 when none did
FirstRaised(runs) ==
    IF Some(runs, LAMBDA r : r.raised)
    THEN CHOOSE i \in 1..Len(runs) : runs[i].raised /\ \A j \in 1..(i - 1) : ~runs[j].raised
    ELSE Len(runs) + 1

analyzeEach(fsv, dirs, cfg, key, ai) ==
    With(Map(dirs, LAMBDA d : analyzeDirectory(fsv, d, cfg, key, ai)), LAMBDA runs :
    With(FirstRaised(runs), LAMBDA bad :
    With({dirs[i] : i \in 1..(bad - 1)}, LAMBDA written :
        [ raised |-> bad <= Len(dirs),
          analyzed |-> SubSeq(dirs, 1, IF bad <= Len(dirs) THEN bad ELSE Len(dirs)),
          written |-> written,
          docs |-> [d \in DOMAIN fsv.docs |->
                       IF d \in written
                       THEN runs[CHOOSE i \in 1..Len(dirs) : dirs[i] = d].document
                       ELSE fsv.docs[d]] ])))

analyzeProject(fsv, projectPath, cfg, key, ai) ==
    analyzeEach(fsv, getDirectories(fsv, projectPath, cfg.ignorePatterns), cfg, key, ai)

(***************************************************************************)
(* services/contextGenerator.ts: the Context Synthesizer.  A context is the *)
(* sequence of its lines.                                                    *)
(***************************************************************************)
RECURSIVE structureLines(_, _, _, _, _)
RECURSIVE structureRaises(_, _, _, _)

ListedWithModules(fsv, p) ==
    SelectSeq(Readdir(fsv, p), LAMBDA e : ~StartsWith(e.name, <<".">>))

Listed(fsv, p) ==
    LET Shown(e) == ~StartsWith(e.name, <<".">>) /\ e.name # <<"n","o","d","e","_","m","o","d","u","l","e","s">>
    IN  SelectSeq(Readdir(fsv, p), Shown)

\* whether traverse(currentPath, depth) of getFileStructure throws
structureRaises(fsv, currentPath, depth, maxDepth) ==
    IF depth > maxDepth THEN FALSE
    ELSE IF ~CanList(fsv.tree, currentPath) THEN TRUE
    ELSE Some(Listed(fsv, currentPath), LAMBDA item :
                \/ item.kind = "dangling"
                \/ /\ item.kind = "dir" /\ depth < maxDepth
                   /\ structureRaises(fsv, PathJoin(currentPath, item.name),
                                      depth + 1, maxDepth))

\* the lines traverse(currentPath, depth, prefix) pushes, when nothing throws; the
\* box-drawing connectors are written in ASCII: "+-- " last entry, "|-- " other entry,
\* "|   " continuation
structureLines(fsv, currentPath, depth, maxDepth, prefix) ==
    IF depth > maxDepth THEN <<>>
    ELSE LET Line(item, isLast) ==
                 << prefix \o <<IF isLast THEN "+-- " ELSE "|-- ">> \o item.name >>
                 \o (IF item.kind = "dir" /\ depth < maxDepth
                     THEN structureLines(fsv, PathJoin(currentPath, item.name), depth + 1,
                              maxDepth, prefix \o <<IF isLast THEN "    " ELSE "|   ">>)
                     ELSE <<>>)
         IN  With(Listed(fsv, currentPath), LAMBDA filtered :
                Flatten(Tuple([i \in 1..Len(filtered) |-> Line(filtered[i], i = Len(filtered))])))

NoContext == [raised |-> TRUE, lines |-> <<>>, read |-> {}]

DirectoryDepth == 2
ProjectDepth == 1
SummaryFiles == 10
SummaryLines == 10
ParentLines == 20

generateDirectoryContext(fsv, dirPath) ==
    IF structureRaises(fsv, dirPath, 1, DirectoryDepth) THEN NoContext
    ELSE [ raised |-> FALSE,
           read |-> IF fsv.docs[dirPath] # NoDoc THEN {dirPath} ELSE {},
           lines |->
             << <<"# Context for ">> \o PathBasename(dirPath), <<>> >>
             \o (IF fsv.docs[dirPath] # NoDoc THEN fsv.docs[dirPath]
                 ELSE << <<"No claude.md documentation found. Run 'codecontext refresh' to generate documentation.">> >>)
             \o << <<>>, <<"## File Structure">> >>
             \o structureLines(fsv, dirPath, 1, DirectoryDepth, <<>>)
             \o << <<>> >> ]

\* glob('**/claude.md'): the documents below projectPath, outside dot-directories and
\* outside node_modules, dist and build, as relative directories in walk order
RECURSIVE globDocs(_, _, _)
globDocs(fsv, projectPath, dir) ==
    LET IsSub(e) ==
            /\ e.kind = "dir" /\ ~StartsWith(e.name, <<".">>)
            /\ ~(dir = projectPath /\ e.name \in {<<"n","o","d","e","_","m","o","d","u","l","e","s">>, <<"d","i","s","t">>, <<"b","u","i","l","d">>})
        subs == IF CanList(fsv.tree, dir) THEN SelectSeq(fsv.tree[dir], IsSub) ELSE <<>>
    IN  (IF fsv.docs[dir] # NoDoc THEN <<dir>> ELSE <<>>)
        \o Flatten(Map(subs, LAMBDA e : globDocs(fsv, projectPath, PathJoin(dir, e.name))))

generateProjectContext(fsv, projectPath) ==
    LET Summary(dir) ==
            << <<>>, <<"### ">> \o (IF dir = projectPath THEN <<".">>
                                     ELSE RelText(PathRelative(projectPath, dir))) >>
            \o Slice(fsv.docs[dir], SummaryLines)
            \o << <<"...">>, <<>> >>
    IN  IF structureRaises(fsv, projectPath, 1, ProjectDepth) THEN NoContext
        ELSE With(Slice(globDocs(fsv, projectPath, projectPath), SummaryFiles),
                  LAMBDA claudeFiles :
             [ raised |-> FALSE,
               read |-> {claudeFiles[i] : i \in 1..Len(claudeFiles)},
               lines |->
                 << <<"# Project-Wide Context">>, <<>>, <<"## Project Structure">> >>
                 \o structureLines(fsv, projectPath, 1, ProjectDepth, <<>>)
                 \o << <<>>, <<"## Directory Summaries">> >>
                 \o Flatten(Map(claudeFiles, Summary))
                 \o << <<>> >> ])

generateStandardContextWholeParent(fsv, targetPath) ==
    [ raised |-> FALSE,
      read |-> {d \in {targetPath, Dirname(targetPath)} : fsv.docs[d] # NoDoc},
      lines |->
        << <<"# Working Context">>, <<>>,
           <<"## Current Directory: ">> \o PathBasename(targetPath) >>
        \o (IF fsv.docs[targetPath] # NoDoc THEN fsv.docs[targetPath] ELSE << <<>> >>)
        \o << <<"## Parent Directory Context">> >>
        \o (IF fsv.docs[Dirname(targetPath)] # NoDoc
            THEN fsv.docs[Dirname(targetPath)] \o << <<"...">> >>
            ELSE << <<>> >>) ]

generateStandardContext(fsv, targetPath) ==
    LET parentDir == Dirname(targetPath)
        current == fsv.docs[targetPath]
        parent == fsv.docs[parentDir]
    IN  [ raised |-> FALSE,
          read |-> {d \in {targetPath, parentDir} : fsv.docs[d] # NoDoc},
          lines |->
            << <<"# Working Context">>, <<>>,
               <<"## Current Directory: ">> \o PathBasename(targetPath) >>
            \o (IF current # NoDoc THEN current ELSE << <<>> >>)
            \o << <<"## Parent Directory Context">> >>
            \o (IF parent # NoDoc THEN Slice(parent, ParentLines) \o << <<"...">> >>
                ELSE << <<>> >>) ]

generateContext(fsv, targetPath, type) ==
    CASE type = "directory" -> generateDirectoryContext(fsv, targetPath)
      [] type = "project" -> generateProjectContext(fsv, targetPath)
      [] OTHER -> generateStandardContext(fsv, targetPath)

(***************************************************************************)
(* The worlds the commands run in                                            *)
(***************************************************************************)
Modes == {"quick", "smart", "deep"}
Views == {"directory", "project", "standard"}

\* the patterns `init` writes (commands/init.ts)
DefaultPatterns == << Under(<<"n","o","d","e","_","m","o","d","u","l","e","s">>), Under(<<"d","i","s","t">>), Under(<<"b","u","i","l","d">>),
                      Named(<<".","l","o","g">>), Under(<<".","g","i","t">>), Under(<<"c","o","v","e","r","a","g","e">>) >>
\* a configuration the user extended with sub/*.ts
CustomPatterns == Append(DefaultPatterns, InDir(<<"s","u","b">>, <<".","t","s">>))

Config(mode, patterns) == [mode |-> mode, ignorePatterns |-> patterns]

\* export function run(x)
IndexText ==
    [ NoText EXCEPT
        !.exports = << [name |-> <<"run">>, type |-> "function", isDefault |-> FALSE] >>,
        !.functions = << [name |-> <<"run">>, params |-> << <<"x">> >>,
                          isAsync |-> FALSE, isExported |-> TRUE] >> ]
\* import express from 'express'; function setup() {...}
ServerText ==
    [ NoText EXCEPT
        !.imports = << [source |-> <<"e","x","p","r","e","s","s">>, specifiers |-> << <<"express">> >>,
                        type |-> "default"] >>,
        !.functions = << [name |-> <<"setup">>, params |-> <<>>,
                          isAsync |-> FALSE, isExported |-> FALSE] >> ]
\* import { run } from './index'; export function fmt(a, b); export class Box { get() {} }
HelperText ==
    [ NoText EXCEPT
        !.imports = << [source |-> <<".",".","/","i","n","d","e","x">>, specifiers |-> << <<"run">> >>,
                        type |-> "named"] >>,
        !.exports = << [name |-> <<"fmt">>, type |-> "function", isDefault |-> FALSE],
                       [name |-> <<"Box">>, type |-> "class", isDefault |-> FALSE] >>,
        !.functions = << [name |-> <<"fmt">>, params |-> << <<"a">>, <<"b">> >>,
                          isAsync |-> FALSE, isExported |-> TRUE] >>,
        !.classes = << [name |-> <<"Box">>, methods |-> << <<"get">> >>,
                        isExported |-> TRUE] >> ]

Sub == PathJoin(ProjectRoot, <<"s","u","b">>)
Utils == PathJoin(Sub, <<"u","t","i","l","s">>)
Dist == PathJoin(ProjectRoot, <<"d","i","s","t">>)
Gen == PathJoin(Dist, <<"g","e","n">>)
Cache == PathJoin(ProjectRoot, <<".","c","a","c","h","e">>)

\* /proj: index.ts debug.log sub/ dist/ .cache/     /proj/sub: a.ts b.py utils/
\* /proj/sub/utils: helper.ts helper.test.ts         /proj/dist: out.js gen/
\* /proj/dist/gen: x.js                              /proj/.cache: tmp.ts
HealthyTree ==
    ( <<>> :> << Dir(<<"p","r","o","j">>) >> )
    @@ ( ProjectRoot :> << File(<<"i","n","d","e","x",".","t","s">>, IndexText), File(<<"d","e","b","u","g",".","l","o","g">>, NoText),
                           Dir(<<"s","u","b">>), Dir(<<"d","i","s","t">>), Dir(<<".","c","a","c","h","e">>) >> )
    @@ ( Sub :> << File(<<"a",".","t","s">>, ServerText), File(<<"b",".","p","y">>, NoText), Dir(<<"u","t","i","l","s">>) >> )
    @@ ( Utils :> << File(<<"h","e","l","p","e","r",".","t","s">>, HelperText), File(<<"h","e","l","p","e","r",".","t","e","s","t",".","t","s">>, NoText) >> )
    @@ ( Dist :> << File(<<"o","u","t",".","j","s">>, NoText), Dir(<<"g","e","n">>) >> )
    @@ ( Gen :> << File(<<"x",".","j","s">>, NoText) >> )
    @@ ( Cache :> << File(<<"t","m","p",".","t","s">>, NoText) >> )

\* sub holds a symbolic link whose target is gone
DanglingTree ==
    [ HealthyTree EXCEPT ![Sub] =
        << File(<<"a",".","t","s">>, ServerText), Dangling(<<"g","h","o","s","t">>), File(<<"b",".","p","y">>, NoText),
           Dir(<<"u","t","i","l","s">>) >> ]

\* sub/utils cannot be listed (no read permission)
LockedTree ==
    [ HealthyTree EXCEPT ![Sub] =
        << File(<<"a",".","t","s">>, ServerText), File(<<"b",".","p","y">>, NoText),
           [Dir(<<"u","t","i","l","s">>) EXCEPT !.readable = FALSE] >> ]

\* sub/a.ts cannot be read (no read permission)
UnreadableTree ==
    [ HealthyTree EXCEPT ![Sub] =
        << [File(<<"a",".","t","s">>, ServerText) EXCEPT !.readable = FALSE], File(<<"b",".","p","y">>, NoText),
           Dir(<<"u","t","i","l","s">>) >> ]

SmallTrees == {HealthyTree, DanglingTree, LockedTree, UnreadableTree}

\* a project of one directory holding up to MaxFiles files of mixed importance
MaxFiles == 11
PoolSuffixes == << <<".","t","s">>, <<"m","a","i","n",".","j","s">>, <<".","m","d">>, <<".","t","e","s","t",".","t","s">>, <<".","p","y">>, <<"i","n","d","e","x",".","t","s">> >>
PoolName(i) == <<LowerChars[((i - 1) % 26) + 1]>> \o PoolSuffixes[((i * 5) % 6) + 1]
\* the files first .. first+n-1 of the pool, the pool taken as a cycle of MaxFiles names
Window(first, n) ==
    Tuple([i \in 1..n |-> File(PoolName((((first + i - 2) % MaxFiles) + 1)), NoText)])
BigTree(first, n) ==
    ( <<>> :> << Dir(<<"p","r","o","j">>) >> ) @@ ( ProjectRoot :> Window(first, n) )
BigTrees == {BigTree(first, n) : first \in 1..MaxFiles, n \in (MaxFiles - 2)..MaxFiles}

(***************************************************************************)
(* The commands                                                              *)
(***************************************************************************)
MaxCommands == 2

\* no commit is waiting for its post-commit hook
NoHook == [none |-> TRUE]

\* a command can be started: the shell is free (git runs the hook before it returns)
Idle == steps < MaxCommands /\ pending = NoHook

\* index.ts line 28: the value of refresh's --mode when the option is not given
DefaultMode == "smart"

NoCommand ==
    [ cmd |-> "none", scope |-> "none", target |-> <<>>, status |-> "none",
      analyzed |-> <<>>, written |-> {}, analysis |-> NoAnalysis, fileAnalyses |-> <<>>,
      heuristic |-> NoAnalysis, calls |-> NoCalls, option |-> "none", mode |-> "none",
      statusAsked |-> FALSE, changed |-> <<>>, read |-> {}, context |-> NoFile, ai |-> NoAi ]

Fsv == FsView(children, docs, config # NoConfig, hasGit, history, outFile # NoFile)

\* how the AI service would answer during a command: there is no client to ask
\* without a key
AiChoices == IF isAvailable(apiKey) THEN AiOutcomes ELSE {NoAi}

Init ==
    /\ \/ /\ children = HealthyTree
          /\ config \in {NoConfig}
                 \cup {Config(m, p) : m \in Modes, p \in {DefaultPatterns, CustomPatterns}}
          /\ hasGit \in BOOLEAN
          /\ apiKey \in IF hasGit THEN BOOLEAN ELSE {FALSE}
       \/ /\ children \in SmallTrees \ {HealthyTree}
          /\ config \in {NoConfig, Config("quick", CustomPatterns),
                         Config("smart", DefaultPatterns)}
          /\ hasGit \in BOOLEAN
          /\ apiKey = FALSE
       \/ /\ children \in BigTrees
          /\ config = Config("quick", DefaultPatterns)
          /\ hasGit = TRUE
          /\ apiKey = FALSE
    /\ docs = [d \in DOMAIN children |-> NoDoc]
    /\ hooked = FALSE
    /\ outFile = NoFile
    /\ history = GitLog
    /\ pending = NoHook
    /\ last = NoCommand
    /\ steps = 0

\* Each command is one step: the operator named ...Effect computes what the handler
\* leaves behind, and the action installs it.

Unchanged == [config |-> config, docs |-> docs, hooked |-> hooked, outFile |-> outFile,
              last |-> NoCommand]

\* commands/init.ts: initCommand({mode, force})
initCommand(mode, force, ai) ==
    IF config # NoConfig /\ ~force
    THEN [ Unchanged EXCEPT !.last = [NoCommand EXCEPT !.cmd = "init", !.status = "blocked"] ]
    ELSE IF ~hasGit    \* installGitHooks throws 'Not a git repository'
    THEN [ Unchanged EXCEPT
             !.config = Config(mode, DefaultPatterns),
             !.last = [NoCommand EXCEPT !.cmd = "init", !.status = "failed"] ]
    ELSE With(Config(mode, DefaultPatterns), LAMBDA cfg :
         With(analyzeProject(FsView(children, docs, TRUE, hasGit, history, outFile # NoFile),
                             ProjectRoot, cfg, apiKey, ai),
              LAMBDA run :
            [ Unchanged EXCEPT
                 !.config = cfg, !.hooked = TRUE, !.docs = run.docs,
                 !.last = [NoCommand EXCEPT
                             !.cmd = "init", !.scope = "all", !.target = ProjectRoot,
                             !.status = IF run.raised THEN "failed" ELSE "ok",
                             !.analyzed = run.analyzed, !.written = run.written,
                             !.ai = ai] ]))

\* the configuration looked for only after git status was asked
BlockedLate(cmd, scope, target) ==
    [ Unchanged EXCEPT !.last = [NoCommand EXCEPT !.cmd = cmd, !.scope = scope,
                                                  !.target = target, !.status = "blocked",
                                                  !.statusAsked = TRUE] ]

Blocked(cmd, scope, target) ==
    [ Unchanged EXCEPT !.last = [NoCommand EXCEPT !.cmd = cmd, !.scope = scope,
                                                  !.target = target, !.status = "blocked"] ]

\* commands/context.ts lines 49-102: refreshCommand(options)
\*   options.all: scope = "all";  options.path: scope = "path", target = the resolved path;
\*   neither: scope = "changed", status = what `git status` reports;
\*   options.mode = option (never read); the analyses get the configuration of line 69
refreshCommand(scope, target, status, option, ai) ==
    IF config = NoConfig THEN Blocked("refresh", scope, target)
    ELSE IF scope \in {"all", "path"}
    THEN With(IF scope = "all" THEN ProjectRoot ELSE target, LAMBDA dir :
         With(analyzeDirectory(Fsv, dir, config, apiKey, ai), LAMBDA single :
            [ Unchanged EXCEPT
                 !.docs = IF single.raised THEN docs ELSE [docs EXCEPT ![dir] = single.document],
                 !.last = [NoCommand EXCEPT
                             !.cmd = "refresh", !.scope = scope, !.target = dir,
                             !.status = IF single.raised THEN "failed" ELSE "ok",
                             !.analyzed = <<dir>>,
                             !.written = IF single.raised THEN {} ELSE {dir},
                             !.analysis = single.analysis,
                             !.fileAnalyses = single.fileAnalyses,
                             !.heuristic = single.heuristic, !.calls = single.calls,
                             !.option = option, !.mode = config.mode, !.ai = ai] ]))
    ELSE With(getChangedFiles(hasGit, status), LAMBDA changedFiles :
            IF Len(changedFiles) = 0
            THEN [ Unchanged EXCEPT
                     !.last = [NoCommand EXCEPT !.cmd = "refresh", !.scope = scope,
                                                !.status = "nochange", !.statusAsked = TRUE,
                                                !.option = option] ]
            ELSE With(Map(Distinct(Map(changedFiles, Dirname)), LAMBDA d : ProjectRoot \o d),
                      LAMBDA directories :
                 With(analyzeEach(Fsv, directories, config, apiKey, ai), LAMBDA run :
                    [ Unchanged EXCEPT
                         !.docs = run.docs,
                         !.last = [NoCommand EXCEPT
                                     !.cmd = "refresh", !.scope = scope,
                                     !.status = IF run.raised THEN "failed" ELSE "ok",
                                     !.analyzed = run.analyzed, !.written = run.written,
                                     !.statusAsked = TRUE, !.changed = changedFiles,
                                     !.option = option, !.mode = config.mode,
                                     !.ai = ai] ])))

\* a context command that analyzes the current directory again before it synthesizes
contextCommandReanalyzing(view, output) ==
    IF config = NoConfig THEN Blocked("context", view, <<>>)
    ELSE With(analyzeDirectory(Fsv, ProjectRoot, config, apiKey, NoAi), LAMBDA single :
            [ Unchanged EXCEPT
                 !.docs = [docs EXCEPT ![ProjectRoot] = single.document],
                 !.last = [NoCommand EXCEPT
                             !.cmd = "context", !.scope = view, !.target = ProjectRoot,
                             !.status = "ok", !.analyzed = <<ProjectRoot>>,
                             !.written = {ProjectRoot}] ])

\* commands/context.ts lines 8-48: contextCommand({currentDir, projectSummary, output})
contextCommand(view, output) ==
    IF config = NoConfig THEN Blocked("context", view, <<>>)
    ELSE With(generateContext(Fsv, ProjectRoot, view), LAMBDA ctx :
            [ Unchanged EXCEPT
                 !.outFile = IF ~ctx.raised /\ output THEN ctx.lines ELSE outFile,
                 !.last = [NoCommand EXCEPT
                             !.cmd = "context", !.scope = view, !.target = ProjectRoot,
                             !.status = IF ctx.raised THEN "failed" ELSE "ok",
                             !.read = ctx.read, !.context = ctx.lines] ])

\* the step of one command with effect e
Run(e) ==
    /\ steps' = steps + 1
    /\ config' = e.config
    /\ docs' = e.docs
    /\ hooked' = e.hooked
    /\ outFile' = e.outFile
    /\ last' = e.last
    /\ UNCHANGED <<children, hasGit, apiKey, history, pending>>

NoStatus == [modified |-> <<>>, created |-> <<>>, renamedTo |-> <<>>]

InitCommand(mode, force, ai) ==
    Idle /\ \E e \in {initCommand(mode, force, ai)} : Run(e)
RefreshAll(option, ai) ==
    Idle
    /\ \E e \in {refreshCommand("all", <<>>, NoStatus, option, ai)} : Run(e)
RefreshPath(target, option, ai) ==
    Idle
    /\ \E e \in {refreshCommand("path", target, NoStatus, option, ai)} : Run(e)
RefreshChanged(status, option, ai) ==
    Idle
    /\ \E e \in {refreshCommand("changed", <<>>, status, option, ai)} : Run(e)
ContextCommand(view, output) ==
    Idle /\ \E e \in {contextCommand(view, output)} : Run(e)

Targets == {ProjectRoot, Sub, Utils} \cap DOMAIN children

\* the i-th entry of directory d, as `git status` names it (relative to the root)
Tracked(d, i) ==
    IF d \in DOMAIN children /\ i <= Len(children[d])
    THEN {<< PathRelative(ProjectRoot, PathJoin(d, children[d][i].name)) >>}
    ELSE {}

\* what `git status` may report: at most MaxChanged files over the three lists
MaxChanged == 2
Statuses ==
    { s \in [ modified : {<<>>} \cup Tracked(ProjectRoot, 1) \cup Tracked(Sub, 1),
              created : {<<>>} \cup Tracked(Sub, 2) \cup Tracked(ProjectRoot, 2),
              renamedTo : {<<>>} \cup Tracked(Utils, 1) ] :
        Len(s.modified) + Len(s.created) + Len(s.renamedTo) <= MaxChanged }

Next ==
    \/ \E mode \in Modes, force \in BOOLEAN, ai \in AiChoices : InitCommand(mode, force, ai)
    \/ \E ai \in AiChoices : RefreshAll(DefaultMode, ai)
    \/ \E target \in Targets, ai \in AiChoices : RefreshPath(target, DefaultMode, ai)
    \/ \E status \in Statuses, ai \in AiChoices : RefreshChanged(status, DefaultMode, ai)
    \/ \E view \in Views, output \in BOOLEAN : ContextCommand(view, output)

Spec == Init /\ [][Next]_vars

(***************************************************************************)
(* Properties.  `last` holds what the last command did, so a property of a  *)
(* command is a predicate on last (its result) or a property of the step    *)
(* that set it (its result against the state it started from).              *)
(***************************************************************************)

\* C1: idempotence - two refreshes of the same directory in a row, with the same
\* files, configuration and history and no AI answer, leave the same claude.md in it
\* (the first of the two may be the first analysis the directory ever had)
C1_Idempotence ==
    [][ ( /\ last.cmd = "refresh" /\ last.scope \in {"all", "path"}
          /\ last.status = "ok" /\ last.ai = NoAi
          /\ last'.cmd = "refresh" /\ last'.scope \in {"all", "path"}
          /\ last'.status = "ok" /\ last'.ai = NoAi
          /\ last'.target = last.target )
        => docs'[last.target] = docs[last.target] ]_vars

\* C2: when the directory request to the AI service fails, analyzeDirectory raises
\* nothing and the purpose, architecture and improvements of its record are the
\* heuristic ones (every child of the directory being one fs.stat succeeds on)
C2_HeuristicsOnAiFailure ==
    ( /\ last.cmd = "refresh" /\ last.scope \in {"all", "path"} /\ last.ai.dir = "fail"
      /\ CanList(children, last.target)
      /\ \A i \in 1..Len(children[last.target]) : children[last.target][i].kind # "dangling" )
    => /\ last.status = "ok"
       /\ last.analysis.purpose = last.heuristic.purpose
       /\ last.analysis.architecture = last.heuristic.architecture
       /\ last.analysis.improvements = last.heuristic.improvements

\* C3: refresh --all writes the document of every directory the project walker yields
C3_RefreshAllWalksTree ==
    (last.cmd = "refresh" /\ last.scope = "all" /\ last.status = "ok")
    => LET dirs == getDirectories(Fsv, ProjectRoot, config.ignorePatterns)
       IN  last.written = {dirs[i] : i \in 1..Len(dirs)}

\* C4: refresh --path X on a directory X that can be listed writes the document of X
\* and leaves every other document as it was
C4_RefreshPathWritesOne ==
    [][ ( /\ last'.cmd = "refresh" /\ last'.scope = "path" /\ last'.status # "blocked"
          /\ CanList(children, last'.target) )
        => /\ last'.written = {last'.target}
           /\ docs'[last'.target] # NoDoc
           /\ \A d \in DOMAIN docs \ {last'.target} : docs'[d] = docs[d] ]_vars

\* C5: a refresh with neither --path nor --all analyzes the distinct parent
\* directories of the files git status reports, each once, and nothing when it
\* reports none
C5_RefreshChangedPlan ==
    [][ (last'.cmd = "refresh" /\ last'.scope = "changed" /\ last'.status # "blocked")
        => LET changed == last'.changed
               parents == {ProjectRoot \o Dirname(changed[i]) : i \in 1..Len(changed)}
               analyzed == last'.analyzed
           IN  /\ {analyzed[i] : i \in 1..Len(analyzed)} = parents
               /\ Len(analyzed) = Cardinality(parents)
               /\ changed = <<>> => (last'.written = {} /\ docs' = docs) ]_vars

\* C6: the keyFiles of a directory's record are the first KeyFilesLimit of its file
\* analyses ranked by importance: at most KeyFilesLimit of them (all of them when
\* there are fewer), importance never increasing, analyses of equal importance in
\* listing order, and none left out that ranks before one that was kept
C6_KeyFilesRanked ==
    (last.cmd = "refresh" /\ last.scope \in {"all", "path"} /\ last.status = "ok")
    => LET all == last.fileAnalyses
           key == last.analysis.keyFiles
           \* the place in the listing of the i-th key file
           Place(i) == CHOOSE p \in 1..Len(all) : all[p].path = key[i].path
           Before(p, q) ==
               \/ all[p].importance > all[q].importance
               \/ all[p].importance = all[q].importance /\ p < q
           kept == {Place(i) : i \in 1..Len(key)}
       IN  /\ Len(key) = IF Len(all) < KeyFilesLimit THEN Len(all) ELSE KeyFilesLimit
           /\ \A i \in 1..Len(key) : \E p \in 1..Len(all) : all[p] = key[i]
           /\ \A i, j \in 1..Len(key) : i < j => Before(Place(i), Place(j))
           /\ \A p \in kept, q \in (1..Len(all)) \ kept : Before(p, q)

\* a directory with more than KeyFilesLimit files was ranked, two of its key files
\* being of equal importance
C6_Witness ==
    /\ last.cmd = "refresh" /\ last.status = "ok" /\ last.scope \in {"all", "path"}
    /\ Len(last.fileAnalyses) > KeyFilesLimit
    /\ Len(last.analysis.keyFiles) = KeyFilesLimit
    /\ \E i \in 1..(KeyFilesLimit - 1) :
           last.analysis.keyFiles[i].importance = last.analysis.keyFiles[i + 1].importance

\* C7: no key file of a directory's record is a path the ignore filter rejects
\* (paths taken relative to the project root)
C7_KeyFilesNotIgnored ==
    (last.cmd = "refresh" /\ last.scope \in {"all", "path"} /\ last.status = "ok")
    => \A i \in 1..Len(last.analysis.keyFiles) :
           ~Ignores(config.ignorePatterns,
                    PathRelative(ProjectRoot, last.analysis.keyFiles[i].path))

\* C8: the full analysis of a project whose entries can all be stat-ed raises nothing
\* and writes the document of every directory of the walk that can be listed
C8_UnreadableDirectorySkipped ==
    ( /\ last.cmd = "init" /\ last.scope = "all"
      /\ \A d \in DOMAIN children :
             \A i \in 1..Len(children[d]) : children[d][i].kind # "dangling" )
    => /\ last.status = "ok"
       /\ LET dirs == getDirectories(Fsv, ProjectRoot, config.ignorePatterns)
          IN  \A i \in 1..Len(dirs) : CanList(children, dirs[i]) => dirs[i] \in last.written

\* C9: the analysis of a directory that can be listed raises nothing and writes the
\* directory's document, whatever its children are
C9_BadChildSkipped ==
    ( /\ last.cmd = "refresh" /\ last.scope \in {"all", "path"} /\ last.status # "blocked"
      /\ CanList(children, last.target) )
    => /\ last.status = "ok"
       /\ last.written = {last.target}
       /\ docs[last.target] # NoDoc

\* C10: without a configuration file refresh and context stop at once: nothing is
\* analyzed, read, written or produced, and git status is not asked
C10_BlockedWithoutConfig ==
    [][ (config = NoConfig /\ last'.cmd \in {"refresh", "context"})
        => /\ last'.status = "blocked"
           /\ last'.analyzed = <<>> /\ last'.written = {} /\ last'.read = {}
           /\ last'.context = NoFile /\ ~last'.statusAsked
           /\ docs' = docs /\ outFile' = outFile /\ config' = config ]_vars

\* a refresh was stopped for want of a configuration file
C10_Witness ==
    config = NoConfig /\ last.cmd = "refresh" /\ last.status = "blocked"

\* whether every child of directory d is one fs.stat succeeds on
AllStatable(d) == \A i \in 1..Len(children[d]) : children[d][i].kind # "dangling"

C12_InitWithoutGit ==
    ( last.cmd = "init" /\ last.status # "blocked" /\ ~hasGit )
    => /\ config # NoConfig
       /\ last.status = "ok"
       /\ ProjectRoot \in last.written

\* the directory entry behind the path of a file analysis
EntryOf(p) ==
    With(Readdir(Fsv, Dirname(p)), LAMBDA entries :
        entries[CHOOSE i \in 1..Len(entries) : entries[i].name = PathBasename(p)])

\* the description analyzeDirectory gives a file when there is no AI client
HeuristicDescription(p) == analyzeFile(p, EntryOf(p), "quick", FALSE, NoAi).description

\* C13: in quick mode analyzeDirectory makes no request to the AI service, with or
\* without an API key, and every description, the purpose, the architecture and the
\* improvements of its record are the heuristic ones
C13_QuickModeAsksNoAi ==
    ( /\ last.cmd = "refresh" /\ last.scope \in {"all", "path"}
      /\ last.status # "blocked" /\ config.mode = "quick" )
    => /\ last.calls.file = 0 /\ ~last.calls.dir
       /\ last.status = "ok" =>
              /\ last.analysis.purpose = last.heuristic.purpose
              /\ last.analysis.architecture = last.heuristic.architecture
              /\ last.analysis.improvements = last.heuristic.improvements
              /\ \A i \in 1..Len(last.fileAnalyses) :
                     last.fileAnalyses[i].description
                         = HeuristicDescription(last.fileAnalyses[i].path)

\* a directory with a source file was analyzed in quick mode while an API key was set
\* and the AI service would have answered
C13_Witness ==
    /\ last.cmd = "refresh" /\ last.status = "ok" /\ config.mode = "quick"
    /\ apiKey /\ last.ai.dir = "json" /\ last.ai.file = "ok"
    /\ \E i \in 1..Len(last.fileAnalyses) :
           Extname(PathBasename(last.fileAnalyses[i].path)) \in SourceExts

\* C14: the context command, in each of its three views, analyzes nothing and writes
\* no claude.md: every persisted document is after it what it was before, and what it
\* read are documents that were already persisted
C14_ContextLeavesDocuments ==
    [][ last'.cmd = "context"
        => /\ docs' = docs
           /\ last'.analyzed = <<>> /\ last'.written = {} /\ last'.calls = NoCalls
           /\ \A d \in last'.read : docs[d] # NoDoc ]_vars

\* a context was synthesized from a persisted document
C14_Witness ==
    /\ last.cmd = "context" /\ last.status = "ok"
    /\ last.read # {} /\ docs[ProjectRoot] # NoDoc

(***************************************************************************)
(* The post-commit hook.  installGitHooks writes .git/hooks/post-commit,    *)
(* which runs `codecontext refresh`; git runs it once the commit is made,   *)
(* before `git commit` returns.                                              *)
(***************************************************************************)
\* the commit `git commit` adds to the history
NewCommit == [hash |-> <<"c","4","f","3","b","1","e","7","7">>, date |-> <<"2024-01-03">>, message |-> <<"Update">>]

\* git status once file is committed: the other changes of the working tree
Remaining(status, file) ==
    [ modified |-> SelectSeq(status.modified, LAMBDA f : f # file),
      created |-> SelectSeq(status.created, LAMBDA f : f # file),
      renamedTo |-> SelectSeq(status.renamedTo, LAMBDA f : f # file) ]

\* `git commit <file>` in a working tree whose changes are status, file being the
\* k-th of them
Commit(status, k) ==
    /\ Idle
    /\ hasGit
    /\ k \in 1..Len(getChangedFiles(hasGit, status))
    /\ history' = <<NewCommit>> \o history
    /\ pending' = IF hooked
                  THEN With(getChangedFiles(hasGit, status)[k], LAMBDA file :
                           [committed |-> file, status |-> Remaining(status, file)])
                  ELSE NoHook
    /\ last' = [NoCommand EXCEPT !.cmd = "commit"]
    /\ steps' = steps + 1
    /\ UNCHANGED <<children, docs, config, hasGit, hooked, apiKey, outFile>>

\* the hook of the pending commit: `codecontext refresh` with no option
PostCommit(ai) ==
    /\ pending # NoHook
    /\ \E e \in {refreshCommand("changed", <<>>, pending.status, DefaultMode, ai)} :
           /\ config' = e.config
           /\ docs' = e.docs
           /\ hooked' = e.hooked
           /\ outFile' = e.outFile
           /\ last' = e.last
    /\ pending' = NoHook
    /\ UNCHANGED <<children, hasGit, apiKey, history, steps>>

InitHook ==
    /\ children = HealthyTree
    /\ config \in {NoConfig, Config("quick", DefaultPatterns), Config("smart", CustomPatterns)}
    /\ hasGit = TRUE
    /\ apiKey \in BOOLEAN
    /\ docs = [d \in DOMAIN children |-> NoDoc]
    /\ hooked = FALSE
    /\ outFile = NoFile
    /\ history = GitLog
    /\ pending = NoHook
    /\ last = NoCommand
    /\ steps = 0

NextHook ==
    \/ \E mode \in Modes, force \in BOOLEAN, ai \in AiChoices : InitCommand(mode, force, ai)
    \/ \E status \in Statuses, k \in 1..MaxChanged : Commit(status, k)
    \/ \E ai \in AiChoices : PostCommit(ai)

SpecHook == InitHook /\ [][NextHook]_vars

\* C15: once the hook is installed, the hook run after a commit of file F analyzes
\* the directory of F again and rewrites its document
C15_HookRefreshesCommitted ==
    [][ pending # NoHook
        => (ProjectRoot \o Dirname(pending.committed)) \in last'.written ]_vars

(***************************************************************************)
(* refresh with its --mode option given                                      *)
(***************************************************************************)
InitModes ==
    /\ children = HealthyTree
    /\ config \in {Config(m, DefaultPatterns) : m \in Modes}
    /\ apiKey \in BOOLEAN
    /\ hasGit \in IF apiKey THEN {FALSE} ELSE BOOLEAN
    /\ docs = [d \in DOMAIN children |-> NoDoc]
    /\ hooked = FALSE
    /\ outFile = NoFile
    /\ history = GitLog
    /\ pending = NoHook
    /\ last = NoCommand
    /\ steps = 0

NextModes ==
    \/ \E option \in Modes, ai \in AiChoices : RefreshAll(option, ai)
    \/ \E target \in Targets, option \in Modes, ai \in AiChoices :
           RefreshPath(target, option, ai)
    \/ \E status \in Statuses, option \in Modes, ai \in AiChoices :
           RefreshChanged(status, option, ai)

SpecModes == InitModes /\ [][NextModes]_vars

\* C16: a refresh given --mode M analyzes in mode M, whatever mode the configuration
\* file holds
C16_RefreshModeOption ==
    ( last.cmd = "refresh" /\ last.status \in {"ok", "failed"} )
    => last.mode = last.option

\* ---------------------------------------------------------------------------
\* Scenario A
\* ---------------------------------------------------------------------------

\* the last command analyzed, in quick mode and with no API key, a directory that holds
\* index.ts with the text `export function run(x)` and no test file
ScenarioA ==
    /\ last.cmd = "refresh" /\ last.scope \in {"all", "path"} /\ last.status = "ok"
    /\ last.mode = "quick" /\ ~apiKey
    /\ Some(children[last.target], LAMBDA e : e = File(<<"i","n","d","e","x",".","t","s">>, IndexText))
    /\ ~Some(last.fileAnalyses, IsTestPath)

\* the key-file entry of index.ts: importance 10, primary functions exactly ["run(x)"]
IsIndexKeyFile(f) ==
    /\ f.path = PathJoin(last.target, <<"i","n","d","e","x",".","t","s">>)
    /\ f.importance = 10
    /\ f.primaryFunctions = << <<"run", "(", "x", ")">> >>

\* C17 (as stated): in Scenario A the record's keyFiles lists index.ts with importance
\* 10 and primary functions exactly ["run(x)"], its improvements include the
\* add-unit-tests suggestion, and its purpose mentions the entry point
C17_ScenarioA_Stated ==
    ScenarioA
    => /\ Some(last.analysis.keyFiles, IsIndexKeyFile)
       /\ Some(last.analysis.improvements, LAMBDA t : t = <<"Consider adding unit tests">>)
       /\ last.analysis.purpose
              \in { <<"Module entry point that exports public API">>, <<"Entry point">> }

\* C17 (amended): in Scenario A the record's keyFiles lists index.ts with importance 10,
\* primary functions exactly ["run(x)"] and the description "Module entry point that
\* exports public API", and its improvements include the add-unit-tests suggestion; the
\* record's purpose is the heuristic directory purpose, which speaks of no entry point
C17_ScenarioA ==
    ScenarioA
    => /\ Some(last.analysis.keyFiles, LAMBDA f :
              /\ IsIndexKeyFile(f)
              /\ f.description = <<"Module entry point that exports public API">>)
       /\ Some(last.analysis.improvements, LAMBDA t : t = <<"Consider adding unit tests">>)
       /\ last.analysis.purpose = last.heuristic.purpose
       /\ last.analysis.purpose
              \notin { <<"Module entry point that exports public API">>, <<"Entry point">> }

\* the project root of the healthy tree, which holds index.ts and no test file, was
\* analyzed in quick mode with no API key
C17_Witness ==
    /\ ScenarioA /\ children = HealthyTree /\ last.target = ProjectRoot
    /\ Len(last.analysis.keyFiles) > 0

\* ---------------------------------------------------------------------------
\* Scenario B
\* ---------------------------------------------------------------------------

\* the last command analyzed a directory named utils and returned a record
ScenarioB ==
    /\ last.cmd = "refresh" /\ last.scope \in {"all", "path"} /\ last.status = "ok"
    /\ PathBasename(last.target) = <<"u","t","i","l","s">>

\* C18 (as stated): the purpose of the record returned for a directory named utils is
\* exactly "Utility functions and helper modules", whatever the directory contains and
\* in every analysis mode
C18_ScenarioB_Stated ==
    ScenarioB => last.analysis.purpose = <<"Utility functions and helper modules">>

\* C18 (amended): for a directory named utils the heuristic purpose is exactly "Utility
\* functions and helper modules" whatever files the directory contains; it is the
\* purpose of the record in quick mode and whenever no API key is set, while in smart
\* or deep mode with an API key the purpose of the record is the AI analyzer's
C18_ScenarioB ==
    ScenarioB
    => /\ last.heuristic.purpose = <<"Utility functions and helper modules">>
       /\ \A first \in 1..MaxFiles, n \in 0..3 :
              getDirectoryPurpose(last.target, Map(Window(first, n), LAMBDA e : e.name))
                  = <<"Utility functions and helper modules">>
       /\ last.analysis.purpose =
              IF UseAi(last.mode, apiKey) THEN aiAnalyzeDirectory(last.ai).purpose
              ELSE <<"Utility functions and helper modules">>

\* the directory sub/utils was analyzed under a deep configuration with no API key, and
\* the record carries the purpose of the name table
C18_Witness ==
    /\ ScenarioB /\ last.target = Utils /\ last.mode = "deep" /\ ~apiKey
    /\ last.analysis.purpose = <<"Utility functions and helper modules">>

\* ---------------------------------------------------------------------------
\* The structural source analyzer and the directory describer on their own: one file
\* is given, then parsed, or one directory is given, then described
\* ---------------------------------------------------------------------------

\* what is given is a directory, named in the table of purposes or not, with the names
\* fs.readdir returns for it, or a file: a name with or without a special stem and a
\* source or other extension, and a text with or without a class, an interface, a
\* function (exported or not) and an import of react or express
InitPurpose ==
    /\ children = HealthyTree
    /\ config = NoConfig
    /\ apiKey = FALSE
    /\ hasGit = FALSE
    /\ docs = [d \in DOMAIN children |-> NoDoc]
    /\ hooked = FALSE
    /\ outFile = NoFile
    /\ history = GitLog
    /\ pending = NoHook
    /\ steps = 0
    /\ last \in
         { [ cmd |-> "listed", name |-> name, purpose |-> <<>>,
             files |-> SelectSeq(<< <<"a",".","p","y">>, <<"b",".","p","y">>, <<"c",".","p","y">>, <<"d",".","t","s","x">>, <<"e",".","t","s">>, <<"f",".","t","s">>,
                                    <<"g",".","g","o">>, <<"L","I","C","E","N","S","E">> >>, LAMBDA n : n \in held) ] :
           name \in { <<"s","t","u","f","f">>, <<"u","t","i","l","s">> },
           held \in SUBSET { <<"a",".","p","y">>, <<"b",".","p","y">>, <<"c",".","p","y">>, <<"d",".","t","s","x">>, <<"e",".","t","s">>, <<"f",".","t","s">>,
                             <<"g",".","g","o">>, <<"L","I","C","E","N","S","E">> } }
         \cup
         { [ cmd |-> "given", name |-> name, parsed |-> NoParse,
             text |-> [ imports |-> imports,
                        exports |-> Map(SelectSeq(functions, IsExported), LAMBDA f :
                                        [name |-> f.name, type |-> "function",
                                         isDefault |-> FALSE]),
                        functions |-> functions,
                        classes |-> classes,
                        interfaces |-> interfaces ] ] :
           name \in { <<"i","n","d","e","x",".","t","s">>, <<"I","n","d","e","x",".","j","s">>, <<"i","n","d","e","x","e","r",".","t","s">>, <<"a",".","t","e","s","t",".","t","s">>,
                      <<"I","n","s","p","e","c","t","o","r",".","t","s">>, <<"s","e","r","v","e","r",".","j","s">>, <<"v","i","e","w",".","t","s","x">>, <<"n","o","t","e","s",".","p","y">> },
           imports \in { <<>>,
                         << [source |-> <<"r","e","a","c","t">>, specifiers |-> << <<"React">> >>,
                             type |-> "default"] >>,
                         << [source |-> <<"e","x","p","r","e","s","s">>, specifiers |-> << <<"express">> >>,
                             type |-> "default"] >>,
                         << [source |-> <<"e","x","p","r","e","s","s">>, specifiers |-> << <<"express">> >>,
                             type |-> "default"],
                            [source |-> <<"r","e","a","c","t","-","d","o","m">>, specifiers |-> << <<"render">> >>,
                             type |-> "named"] >> },
           functions \in { <<>>,
                           << [name |-> <<"setup">>, params |-> <<>>,
                               isAsync |-> FALSE, isExported |-> FALSE] >>,
                           << [name |-> <<"setup">>, params |-> <<>>,
                               isAsync |-> FALSE, isExported |-> FALSE],
                              [name |-> <<"run">>, params |-> << <<"x">> >>,
                               isAsync |-> FALSE, isExported |-> TRUE] >> },
           classes \in { <<>>,
                         << [name |-> <<"Box">>, methods |-> << <<"get">> >>,
                             isExported |-> TRUE] >> },
           interfaces \in { <<>>,
                            << [name |-> <<"Opts">>, properties |-> << <<"depth">> >>,
                                isExported |-> FALSE] >> } }

\* codeParser.ts parseSourceFile, applied to the file given
ParseSourceFile ==
    /\ steps < MaxCommands /\ last.cmd = "given"
    /\ last' = [last EXCEPT
                  !.cmd = "parsed",
                  !.parsed = parseSourceFile(<<last.name>>, File(last.name, last.text))]
    /\ steps' = steps + 1
    /\ UNCHANGED <<children, docs, config, hasGit, hooked, apiKey, outFile, history,
                   pending>>

\* fileUtils.ts getDirectoryPurpose, applied to the directory given
GetDirectoryPurpose ==
    /\ steps < MaxCommands /\ last.cmd = "listed"
    /\ last' = [last EXCEPT
                  !.cmd = "described",
                  !.purpose = getDirectoryPurpose(<<last.name>>, last.files)]
    /\ steps' = steps + 1
    /\ UNCHANGED <<children, docs, config, hasGit, hooked, apiKey, outFile, history,
                   pending>>

NextPurpose == ParseSourceFile \/ GetDirectoryPurpose

SpecPurpose == InitPurpose /\ [][NextPurpose]_vars

\* C19: the purpose of a parsed file is the result of the first rule that matches, in
\* the order (1) stem contains test or spec, (2) stem is index, (3) a class, (4) an
\* interface, (5) an exported function, (6) an import from react, (7) an import from
\* express, (8) "Module implementation"; a file with no declaration and no special name
\* has every sequence field empty and the purpose "Module implementation"
C19_FirstMatchingRule ==
    ( last.cmd = "parsed" /\ last.parsed # NoParse )
    => LET stem == ToLowerCase(Basename(last.name, Extname(last.name)))
           text == last.text
           Matches(k) ==
               CASE k = 1 -> Includes(stem, <<"t","e","s","t">>) \/ Includes(stem, <<"s","p","e","c">>)
                 [] k = 2 -> stem = <<"i","n","d","e","x">>
                 [] k = 3 -> text.classes # <<>>
                 [] k = 4 -> text.interfaces # <<>>
                 [] k = 5 -> \E i \in 1..Len(text.functions) : text.functions[i].isExported
                 [] k = 6 -> \E i \in 1..Len(text.imports) :
                                 Includes(text.imports[i].source, <<"r","e","a","c","t">>)
                 [] k = 7 -> \E i \in 1..Len(text.imports) :
                                 Includes(text.imports[i].source, <<"e","x","p","r","e","s","s">>)
                 [] k = 8 -> TRUE
           Outcome(k) ==
               CASE k = 1 -> <<"Test suite for unit testing">>
                 [] k = 2 -> <<"Module entry point that exports public API">>
                 [] k = 3 -> <<"Defines ", "Box", " class with ", "1", " methods">>
                 [] k = 4 -> <<"Type definitions including ", "Opts">>
                 [] k = 5 -> <<"Provides ", "run", " functionality">>
                 [] k = 6 -> <<"React component">>
                 [] k = 7 -> <<"Express server/middleware">>
                 [] k = 8 -> <<"Module implementation">>
       IN  /\ \A k \in 1..8 :
                  ( Matches(k) /\ \A j \in 1..(k - 1) : ~Matches(j) )
                  => last.parsed.mainPurpose = Outcome(k)
           /\ ( text = NoText /\ ~Matches(1) /\ ~Matches(2) )
              => /\ last.parsed.imports = <<>> /\ last.parsed.exports = <<>>
                 /\ last.parsed.functions = <<>> /\ last.parsed.classes = <<>>
                 /\ last.parsed.interfaces = <<>>
                 /\ last.parsed.mainPurpose = <<"Module implementation">>

\* index.ts holding a class, an exported function and an import from react was parsed:
\* the second rule wins over the third, fifth and sixth
C19_Witness ==
    /\ last.cmd = "parsed" /\ last.name = <<"i","n","d","e","x",".","t","s">>
    /\ last.text.classes # <<>> /\ Len(last.text.functions) = 2
    /\ last.text.imports # <<>>
    /\ last.parsed.mainPurpose = <<"Module entry point that exports public API">>

\* ---------------------------------------------------------------------------
\* The project walker
\* ---------------------------------------------------------------------------

\* C20: the walk of init yields the root, no directory twice, no dot-directory, no
\* directory the ignore filter excludes nor any descendant of one, and every other
\* directory of the tree; analyzeProject analyzes each yielded directory exactly once
C20_WalkYieldsEveryDirectory ==
    ( last.cmd = "init" /\ last.status \in {"ok", "failed"} /\ hasGit )
    => LET walk == getDirectories(Fsv, ProjectRoot, config.ignorePatterns)
           Kept(p) == \A k \in (Len(ProjectRoot) + 1)..Len(p) :
                          /\ ~StartsWith(p[k], <<".">>)
                          /\ ~Ignores(config.ignorePatterns,
                                      SubSeq(p, Len(ProjectRoot) + 1, k))
           expected == { p \in DOMAIN children :
                           /\ Len(p) >= Len(ProjectRoot)
                           /\ SubSeq(p, 1, Len(ProjectRoot)) = ProjectRoot
                           /\ Kept(p) }
           Range(s) == {s[i] : i \in 1..Len(s)}
       IN  /\ ProjectRoot \in Range(walk)
           /\ \A i, j \in 1..Len(walk) : walk[i] = walk[j] => i = j
           /\ Range(walk) = expected
           /\ Range(last.analyzed) = Range(walk)
           /\ Len(last.analyzed) = Len(walk)

\* ---------------------------------------------------------------------------
\* The Context Synthesizer on its own: documents of several lengths are on disk
\* and one view of one directory is generated
\* ---------------------------------------------------------------------------

\* the healthy tree, or the healthy tree with node_modules inside sub; the project root,
\* sub and sub/utils each hold no document or a document of 3, 20, 21 or 24 lines
InitViews ==
    /\ children \in
         { HealthyTree,
           [ HealthyTree EXCEPT ![Sub] =
               << File(<<"a",".","t","s">>, ServerText), Dir(<<"n","o","d","e","_","m","o","d","u","l","e","s">>), Dir(<<"u","t","i","l","s">>),
                  File(<<"b",".","p","y">>, NoText), Dir(<<"n","o","d","e","_","m","o","d","u","l","e","s">>) >> ]
           @@ ( PathJoin(Sub, <<"n","o","d","e","_","m","o","d","u","l","e","s">>) :> << File(<<"p","k","g",".","j","s">>, NoText) >> ) }
    /\ docs \in
         { [ d \in DOMAIN children |->
               IF d \in DOMAIN len
               THEN Tuple([i \in 1..len[d] |->
                              <<"line ">> \o NumText(i) \o <<" of ">> \o PathText(d)])
               ELSE NoDoc ] :
           len \in [ {ProjectRoot, Sub, Utils} -> {0, 3, 20, 21, 24} ] }
    /\ config = Config("quick", DefaultPatterns)
    /\ hasGit = FALSE
    /\ apiKey = FALSE
    /\ hooked = FALSE
    /\ outFile = NoFile
    /\ history = GitLog
    /\ pending = NoHook
    /\ last = NoCommand
    /\ steps = 0

\* contextGenerator.ts generateContext(targetPath, config, type)
GenerateContext(targetPath, type) ==
    /\ steps < MaxCommands
    /\ last' = With(generateContext(Fsv, targetPath, type), LAMBDA ctx :
                  [NoCommand EXCEPT
                     !.cmd = "context", !.scope = type, !.target = targetPath,
                     !.status = IF ctx.raised THEN "failed" ELSE "ok",
                     !.read = ctx.read, !.context = ctx.lines])
    /\ steps' = steps + 1
    /\ UNCHANGED <<children, docs, config, hasGit, hooked, apiKey, outFile, history,
                   pending>>

NextViews ==
    \E targetPath \in {ProjectRoot, Sub, Utils}, type \in Views :
        GenerateContext(targetPath, type)

SpecViews == InitViews /\ [][NextViews]_vars

\* C21: the standard view holds the target's whole document when there is one, then the
\* parent-context header, then the first 20 lines of the parent's document and the
\* ellipsis when there is one; no line of the parent's document after the 20th appears;
\* an absent document leaves its part out and nothing fails
C21_StandardView ==
    ( last.cmd = "context" /\ last.scope = "standard" )
    => LET ctx == last.context
           current == docs[last.target]
           parent == docs[Dirname(last.target)]
           at == 4 + (IF current = NoDoc THEN 1 ELSE Len(current))
           shown == IF Len(parent) < 20 THEN Len(parent) ELSE 20
       IN  /\ last.status = "ok"
           /\ current # NoDoc => SubSeq(ctx, 4, 3 + Len(current)) = current
           /\ current = NoDoc => \A i \in 1..Len(ctx) : \A d \in {ProjectRoot, Sub, Utils} :
                                     d # Dirname(last.target) =>
                                         ~EndsWith(ctx[i], <<" of ">> \o PathText(d))
           /\ ctx[at] = <<"## Parent Directory Context">>
           /\ parent # NoDoc =>
                  /\ Len(ctx) = at + shown + 1
                  /\ SubSeq(ctx, at + 1, at + shown) = SubSeq(parent, 1, shown)
                  /\ ctx[Len(ctx)] = <<"...">>
                  /\ \A k \in 21..Len(parent) : \A i \in 1..Len(ctx) : ctx[i] # parent[k]
           /\ parent = NoDoc =>
                  /\ Len(ctx) = at + 1 /\ ctx[Len(ctx)] = <<>>
                  /\ last.read \subseteq {last.target}

\* the standard view of sub/utils was generated while sub/utils holds a document and sub
\* holds one of 24 lines
C21_Witness ==
    /\ last.cmd = "context" /\ last.scope = "standard" /\ last.target = Utils
    /\ docs[Utils] # NoDoc /\ Len(docs[Sub]) = 24
    /\ Len(last.context) = 4 + Len(docs[Utils]) + 21

\* ---------------------------------------------------------------------------
\* Primary functions
\* ---------------------------------------------------------------------------

\* C22: for every parsed file of an analyzed directory, the primary functions are the
\* first 3 exported functions when the file has an exported function, and the file
\* describer's guess otherwise; they are never empty and never more than 3
C22_PrimaryFunctionsKept ==
    ( last.cmd = "refresh" /\ last.scope \in {"all", "path"} /\ last.status = "ok" )
    => \A i \in 1..Len(last.fileAnalyses) :
           LET f == last.fileAnalyses[i]
               fileName == PathBasename(f.path)
               parsed == parseSourceFile(f.path, EntryOf(f.path))
               exported == SelectSeq(parsed.functions, LAMBDA g : g.isExported)
           IN  parsed # NoParse
               => /\ f.primaryFunctions =
                        IF exported # <<>>
                        THEN Slice(Map(exported, Signature), 3)
                        ELSE getPrimaryFunctions(fileName, Extname(fileName))
                  /\ Len(f.primaryFunctions) \in 1..3

\* ---------------------------------------------------------------------------
\* Directory purpose by file extension
\* ---------------------------------------------------------------------------

\* C23: for a directory whose name is not in the table, the purpose follows the most
\* frequent extension among the children: React for .tsx or .jsx, Vue for .vue,
\* Python for .py, Go for .go, and the file-count sentence when the most frequent
\* extension is none of these
C23_DominantExtension ==
    ( last.cmd = "described" /\ last.name = <<"s","t","u","f","f">> )
    => LET files == last.files
           exts == {Extname(files[i]) : i \in 1..Len(files)} \ {<<>>}
           Holding(e) == Cardinality({i \in 1..Len(files) : Extname(files[i]) = e})
           Dominant(e) == e \in exts /\ \A o \in exts \ {e} : Holding(e) > Holding(o)
           Inferred(e) ==
               CASE e \in {<<".","t","s","x">>, <<".","j","s","x">>} -> <<"Contains React components and UI elements">>
                 [] e = <<".","v","u","e">> -> <<"Contains Vue.js components">>
                 [] e = <<".","p","y">> -> <<"Python modules and scripts">>
                 [] e = <<".","g","o">> -> <<"Go language source files">>
                 [] OTHER -> <<"Contains ">> \o NumText(Len(files))
                                 \o <<" files related to ">> \o last.name
       IN  /\ \A e \in exts : Dominant(e) => last.purpose = Inferred(e)
           /\ exts = {} => last.purpose = Inferred(<<>>)

\* ---------------------------------------------------------------------------
\* The file structure of the directory and project views
\* ---------------------------------------------------------------------------

\* C24: the file structure of the directory view (depth 2) and of the project view
\* (depth 1) lists, in order, the entries of the target that are neither dotfiles nor
\* node_modules and, while depth remains, the like entries of each listed directory
\* right after it, and nothing else; in each listed directory the last listed entry
\* and only it has the closing connector
C24_FileStructure ==
    ( last.cmd = "context" /\ last.scope \in {"directory", "project"} )
    => LET ctx == last.context
           budget == IF last.scope = "directory" THEN 2 ELSE 1
           from == IF last.scope = "project" THEN 4
                   ELSE 5 + (IF docs[last.target] = NoDoc THEN 1 ELSE Len(docs[last.target]))
           to == IF last.scope = "directory" THEN Len(ctx) - 1
                 ELSE (CHOOSE k \in 1..Len(ctx) : ctx[k] = <<"## Directory Summaries">>) - 2
           tree == SubSeq(ctx, from, to)
           At(line) == CHOOSE k \in 1..Len(line) :
                           /\ line[k] \in {"+-- ", "|-- "}
                           /\ \A j \in 1..(k - 1) : line[j] \in {"    ", "|   "}
           Level(i) == At(tree[i]) - 1
           Name(i) == SubSeq(tree[i], At(tree[i]) + 1, Len(tree[i]))
           Closing(i) == tree[i][At(tree[i])] = "+-- "
           Entries(p) == SelectSeq(Readdir(Fsv, p), LAMBDA e :
                             e.name[1] # "." /\ e.name # <<"n","o","d","e","_","m","o","d","u","l","e","s">>)
           Names(p) == [i \in 1..Len(Entries(p)) |-> Entries(p)[i].name]
           Top == SelectSeq([i \in 1..Len(tree) |-> i], LAMBDA i : Level(i) = 0)
           Until(i) == IF \E j \in (i + 1)..Len(tree) : Level(j) = 0
                       THEN (CHOOSE j \in (i + 1)..Len(tree) :
                                /\ Level(j) = 0
                                /\ \A m \in (i + 1)..(j - 1) : Level(m) # 0) - 1
                       ELSE Len(tree)
       IN  /\ last.status = "ok"
           /\ \A i \in 1..Len(tree) :
                  /\ Level(i) \in 0..(budget - 1)
                  /\ Name(i)[1] # "." /\ Name(i) # <<"n","o","d","e","_","m","o","d","u","l","e","s">>
                  /\ Closing(i) <=> \A j \in (i + 1)..Len(tree) :
                                        Level(j) = Level(i)
                                        => \E m \in (i + 1)..(j - 1) : Level(m) < Level(i)
           /\ [k \in 1..Len(Top) |-> Name(Top[k])] = Names(last.target)
           /\ \A k \in 1..Len(Top) :
                  [m \in 1..(Until(Top[k]) - Top[k]) |-> Name(Top[k] + m)]
                      = IF budget = 2 /\ Entries(last.target)[k].kind = "dir"
                        THEN Names(PathJoin(last.target, Name(Top[k])))
                        ELSE <<>>

\* the directory view of sub was generated in the tree where sub holds node_modules and
\* a document: its file structure lists a.ts, utils with its two files, b.py and claude.md
C24_Witness ==
    /\ last.cmd = "context" /\ last.scope = "directory" /\ last.target = Sub
    /\ PathJoin(Sub, <<"n","o","d","e","_","m","o","d","u","l","e","s">>) \in DOMAIN children
    /\ docs[Sub] # NoDoc /\ docs[Utils] = NoDoc
    /\ SubSeq(last.context, Len(last.context) - 6, Len(last.context) - 1)
           = << <<"|-- ">> \o <<"a",".","t","s">>, <<"|-- ">> \o <<"u","t","i","l","s">>,
                <<"|   ", "|-- ">> \o <<"h","e","l","p","e","r",".","t","s">>, <<"|   ", "+-- ">> \o <<"h","e","l","p","e","r",".","t","e","s","t",".","t","s">>,
                <<"|-- ">> \o <<"b",".","p","y">>, <<"+-- ">> \o <<"c","l","a","u","d","e",".","m","d">> >>

\* ---------------------------------------------------------------------------
\* Two directory analyses interleaved at their await points
\* ---------------------------------------------------------------------------

analyzeDirectoryCountingBelow(listed, named, dirPath) ==
    With(analyzeDirectory(FsView(children, listed, TRUE, hasGit, history, FALSE),
                          dirPath, config, apiKey, NoAi), LAMBDA run :
        [run.analysis EXCEPT
           !.purpose = <<"Contains ">>
                          \o NumText(Cardinality({d \in DOMAIN named :
                                 named[d] # NoDoc /\ Dirname(d) = dirPath}))
                          \o <<" documented directories">>])

\* the record of analyzeDirectory(dirPath) when its fs.readdir of line 21 saw the
\* documents `listed` and the fs.readdir of getDirectoryPurpose (line 119) saw the
\* documents `named`; no API key is set, so the purpose is the heuristic one
analyzeDirectoryAwaiting(listed, named, dirPath) ==
    With(analyzeDirectory(FsView(children, listed, TRUE, hasGit, history, FALSE),
                          dirPath, config, apiKey, NoAi), LAMBDA run :
    With(Readdir(FsView(children, named, TRUE, hasGit, history, FALSE), dirPath),
         LAMBDA files :
        [run.analysis EXCEPT
           !.purpose = getDirectoryPurpose(dirPath, Map(files, LAMBDA e : e.name))]))

\* two distinct directories of the healthy tree are about to be analyzed; either no
\* document exists yet or the whole project was analyzed before
InitPar ==
    /\ children = HealthyTree
    /\ config \in {Config("quick", DefaultPatterns), Config("smart", CustomPatterns)}
    /\ hasGit \in BOOLEAN
    /\ apiKey = FALSE
    /\ docs \in { [d \in DOMAIN children |-> NoDoc],
                  analyzeProject(FsView(children, [d \in DOMAIN children |-> NoDoc],
                                        TRUE, hasGit, GitLog, FALSE),
                                 ProjectRoot, config, apiKey, NoAi).docs }
    /\ hooked = FALSE
    /\ outFile = NoFile
    /\ history = GitLog
    /\ pending \in { [d \in pair |-> [pc |-> "list", listed |-> docs, named |-> docs,
                                      record |-> NoAnalysis]] :
                     pair \in { s \in SUBSET {ProjectRoot, Sub, Utils, Dist} :
                                  Cardinality(s) = 2 } }
    /\ last = [cmd |-> "analyses", before |-> docs]
    /\ steps = 0

\* part_004:21 files = await fs.readdir(dirPath), and the loop over the files
ListFiles(dirPath) ==
    /\ dirPath \in DOMAIN pending /\ pending[dirPath].pc = "list"
    /\ pending' = [pending EXCEPT ![dirPath].pc = "purpose", ![dirPath].listed = docs]
    /\ UNCHANGED <<children, docs, config, hasGit, hooked, apiKey, outFile, history,
                   last, steps>>

\* part_004:119 purpose = await getDirectoryPurpose(dirPath, fileAnalyses)
AwaitPurpose(dirPath) ==
    /\ dirPath \in DOMAIN pending /\ pending[dirPath].pc = "purpose"
    /\ pending' = [pending EXCEPT ![dirPath].pc = "write", ![dirPath].named = docs]
    /\ UNCHANGED <<children, docs, config, hasGit, hooked, apiKey, outFile, history,
                   last, steps>>

\* part_004:142-155 the record is built, rendered and written to dirPath/claude.md
WriteDocument(dirPath) ==
    /\ dirPath \in DOMAIN pending /\ pending[dirPath].pc = "write"
    /\ \E record \in {analyzeDirectoryAwaiting(pending[dirPath].listed,
                                               pending[dirPath].named, dirPath)} :
          /\ pending' = [pending EXCEPT ![dirPath].pc = "done",
                                        ![dirPath].record = record]
          /\ docs' = [docs EXCEPT ![dirPath] = generateDocumentation(record)]
    /\ UNCHANGED <<children, config, hasGit, hooked, apiKey, outFile, history, last,
                   steps>>

NextPar ==
    \E dirPath \in {ProjectRoot, Sub, Utils, Dist} :
        \/ ListFiles(dirPath)
        \/ AwaitPurpose(dirPath)
        \/ WriteDocument(dirPath)

SpecPar == InitPar /\ [][NextPar]_vars

\* C25: however the steps of two analyses of distinct directories interleave, each
\* writes only its own document, and once both are done the two records and all the
\* documents are those of analyzing the first and then the second, and those of
\* analyzing the second and then the first
C25_AnalysesIndependent ==
    LET Alone(before, d) ==
            analyzeDirectory(FsView(children, before, TRUE, hasGit, history, FALSE),
                             d, config, apiKey, NoAi)
        After(before, d) == [before EXCEPT ![d] = Alone(before, d).document]
    IN  /\ \A d \in DOMAIN docs :
               ( d \notin DOMAIN pending \/ pending[d].pc # "done" )
               => docs[d] = last.before[d]
        /\ \A d1 \in DOMAIN pending, d2 \in DOMAIN pending :
               ( d1 # d2 /\ pending[d1].pc = "done" /\ pending[d2].pc = "done" )
               => /\ pending[d1].record = Alone(last.before, d1).analysis
                  /\ pending[d2].record = Alone(After(last.before, d1), d2).analysis
                  /\ docs = After(After(last.before, d1), d2)

\* the analyses of sub and of sub/utils are both done, and sub/utils wrote its document
\* between the listing of sub and the second listing of sub
C25_Witness ==
    /\ DOMAIN pending = {Sub, Utils}
    /\ pending[Sub].pc = "done" /\ pending[Utils].pc = "done"
    /\ pending[Sub].listed[Utils] # pending[Sub].named[Utils]

\* ---------------------------------------------------------------------------
\* The configuration file as the mark of an initialized project
\* ---------------------------------------------------------------------------

\* C26: an init that fails in a project with no configuration file leaves the project
\* without one, so that a following init is not rejected as already initialized and a
\* following refresh or context is not accepted
C26_InitializedOnlyAfterSuccess ==
    [][ ( config = NoConfig /\ last'.cmd = "init" /\ last'.status = "failed" )
        => config' = NoConfig ]_vars

====
